---- MODULE Spec2Model ----
(***************************************************************************)
(* pytest-coverage-impact: the call graph (call_graph.py), the impact      *)
(* calculator (impact_calculator.py) and the prioritizer                   *)
(* (core/prioritizer.py).                                                   *)
(*                                                                         *)
(* Strings are sequences of tokens: an identifier is one token, and the    *)
(* separators "." and "::" are tokens of their own, so that                *)
(* "m.py::A.save" is <<"m", ".", "py", "::", "A", ".", "save">> and        *)
(* str.split(".") is a computation on the sequence.  None and the empty    *)
(* string are both <<>> (the code only tests them for truthiness); a line  *)
(* of None is 0.                                                           *)
(***************************************************************************)
EXTENDS Integers, Sequences, FiniteSets, TLC

VARIABLES graph, impact_cache, result, last_op, pre_graph,
          stack, queried,
          files, scanned, order, pc, coverage, impact_scores, prioritized,
          coverage_file, estimated_complexity, estimated_confidence, call_args

vars == <<graph, impact_cache, result, last_op, pre_graph,
          stack, queried,
          files, scanned, order, pc, coverage, impact_scores, prioritized,
          coverage_file, estimated_complexity, estimated_confidence, call_args>>

apiVars == <<graph, impact_cache, result, last_op, pre_graph>>
traceVars == <<stack, queried>>
buildVars == <<files, scanned, order, pc, coverage, impact_scores, prioritized>>
callVars == <<coverage_file, estimated_complexity, estimated_confidence, call_args>>

----------------------------------------------------------------------------
(* Strings *)

None == <<>>

\* "sub in s" for a one-token substring
Contains(s, tok) == \E i \in 1..Len(s) : s[i] = tok

\* s.split(sep): the list of the pieces of s between the occurrences of sep
RECURSIVE Split(_, _)
Split(s, sep) ==
    IF ~Contains(s, sep) THEN <<s>>
    ELSE LET i == CHOOSE i \in 1..Len(s) :
                      s[i] = sep /\ \A j \in 1..(i - 1) : s[j] # sep
         IN <<SubSeq(s, 1, i - 1)>> \o Split(SubSeq(s, i + 1, Len(s)), sep)

\* s.split(sep, 1): at most one split, at the first sep
Split1(s, sep) ==
    IF ~Contains(s, sep) THEN <<s>>
    ELSE LET i == CHOOSE i \in 1..Len(s) :
                      s[i] = sep /\ \A j \in 1..(i - 1) : s[j] # sep
         IN <<SubSeq(s, 1, i - 1), SubSeq(s, i + 1, Len(s))>>

\* f"{a}.{b}" and f"{a}::{b}"
DotJoin(a, b) == a \o <<".">> \o b
ColonJoin(a, b) == a \o <<"::">> \o b

Last(seq) == seq[Len(seq)]

----------------------------------------------------------------------------
(* CallGraph *)

\* the defaultdict's factory
NewNode ==
    [calls |-> {}, called_by |-> {}, file |-> None, line |-> 0,
     is_method |-> FALSE, class_name |-> None]

\* self.graph[k]: a defaultdict creates the entry when it is read
Touch(g, k) == IF k \in DOMAIN g THEN g ELSE g @@ (k :> NewNode)

RECURSIVE TouchAll(_, _)
TouchAll(g, ks) ==
    IF ks = {} THEN g
    ELSE LET k == CHOOSE k \in ks : TRUE IN TouchAll(Touch(g, k), ks \ {k})

add_function(g, full_name, file_path, line, is_method, class_name) ==
    [Touch(g, full_name) EXCEPT
        ![full_name].file = file_path,
        ![full_name].line = line,
        ![full_name].is_method = is_method,
        ![full_name].class_name = class_name]

add_call_caller_only(g, caller, callee) ==
    [Touch(g, caller) EXCEPT ![caller].calls = @ \cup {callee}]

add_call_one_sided(g, caller, callee) ==
    LET g1 == Touch(g, caller)
    IN Touch([g1 EXCEPT ![caller].calls = @ \cup {callee}], callee)

add_call(g, caller, callee) ==
    LET g1 == Touch(g, caller)
        g2 == [g1 EXCEPT ![caller].calls = @ \cup {callee}]
        g3 == Touch(g2, callee)
    IN [g3 EXCEPT ![callee].called_by = @ \cup {caller}]

\* {ClassName.method_name: [full_names]}; the lists are only ever iterated
\* to add their members to sets, so they are sets here
ClassMethodKey(g, full_name) ==
    DotJoin(g[full_name].class_name, Last(Split(full_name, ".")))

IsIndexedMethod(g, full_name) ==
    /\ g[full_name].class_name # None
    /\ Contains(full_name, "::")
    /\ Contains(full_name, ".")

build_class_methods_mapping(g) ==
    LET methods == {n \in DOMAIN g : IsIndexedMethod(g, n)}
        keys == {ClassMethodKey(g, n) : n \in methods}
    IN [k \in keys |-> {n \in methods : ClassMethodKey(g, n) = k}]

find_method_matches_first(method_name, class_methods) ==
    LET hit == {k \in DOMAIN class_methods : Split1(k, ".")[2] = method_name}
    IN IF hit = {} THEN {}
       ELSE LET k == CHOOSE k \in hit : TRUE
            IN {CHOOSE n \in class_methods[k] : TRUE}

find_method_matches(method_name, class_methods) ==
    UNION {class_methods[k] :
             k \in {k \in DOMAIN class_methods : Split1(k, ".")[2] = method_name}}

\* (calls_to_add, calls_to_remove)
resolve_method_call_any_length(call, class_methods) ==
    IF ~Contains(call, ".") THEN [add |-> {}, remove |-> {}]
    ELSE LET matches == find_method_matches(Last(Split(call, ".")), class_methods)
         IN IF matches # {} THEN [add |-> matches, remove |-> {call}]
            ELSE [add |-> {}, remove |-> {}]

resolve_method_call(call, class_methods) ==
    IF ~Contains(call, ".") THEN [add |-> {}, remove |-> {}]
    ELSE LET parts == Split(call, ".")
         IN IF Len(parts) = 2
            THEN LET matches == find_method_matches(parts[2], class_methods)
                 IN IF matches # {} THEN [add |-> matches, remove |-> {call}]
                    ELSE [add |-> {}, remove |-> {}]
            ELSE IF Len(parts) = 3
            THEN LET matches == find_method_matches(Last(parts), class_methods)
                 IN IF matches # {} THEN [add |-> matches, remove |-> {call}]
                    ELSE [add |-> {}, remove |-> {}]
            ELSE [add |-> {}, remove |-> {}]

RECURSIVE DiscardCalledBy(_, _, _)
DiscardCalledBy(g, caller_name, to_remove) ==
    IF to_remove = {} THEN g
    ELSE LET r == CHOOSE r \in to_remove : TRUE
             g1 == IF r \in DOMAIN g
                   THEN [g EXCEPT ![r].called_by = @ \ {caller_name}]
                   ELSE g
         IN DiscardCalledBy(g1, caller_name, to_remove \ {r})

RECURSIVE AddCalledBy(_, _, _)
AddCalledBy(g, caller_name, to_add) ==
    IF to_add = {} THEN g
    ELSE LET a == CHOOSE a \in to_add : TRUE
             g1 == Touch(g, a)
         IN AddCalledBy([g1 EXCEPT ![a].called_by = @ \cup {caller_name}],
                        caller_name, to_add \ {a})

update_calls_add_then_remove(g, caller_name, calls_to_add, calls_to_remove) ==
    LET g1 == [g EXCEPT ![caller_name].calls = (@ \cup calls_to_add) \ calls_to_remove]
        g2 == AddCalledBy(g1, caller_name, calls_to_add)
    IN DiscardCalledBy(g2, caller_name, calls_to_remove)

update_calls_keep_called_by(g, caller_name, calls_to_add, calls_to_remove) ==
    LET g1 == [g EXCEPT ![caller_name].calls = (@ \ calls_to_remove) \cup calls_to_add]
    IN AddCalledBy(g1, caller_name, calls_to_add)

\* every removal first, then every addition
update_calls_for_caller(g, caller_name, calls_to_add, calls_to_remove) ==
    LET g1 == [g EXCEPT ![caller_name].calls = @ \ calls_to_remove]
        g2 == DiscardCalledBy(g1, caller_name, calls_to_remove)
        g3 == [g2 EXCEPT ![caller_name].calls = @ \cup calls_to_add]
    IN AddCalledBy(g3, caller_name, calls_to_add)

\* one iteration of the loop over list(self.graph.items())
ResolveCaller(g, caller_name, class_methods) ==
    LET res == [c \in g[caller_name].calls |-> resolve_method_call(c, class_methods)]
        calls_to_add == UNION {res[c].add : c \in DOMAIN res}
        calls_to_remove == UNION {res[c].remove : c \in DOMAIN res}
    IN IF calls_to_add # {} \/ calls_to_remove # {}
       THEN update_calls_for_caller(g, caller_name, calls_to_add, calls_to_remove)
       ELSE g

RECURSIVE ResolveLoop(_, _, _)
ResolveLoop(g, callers, class_methods) ==
    IF callers = {} THEN g
    ELSE LET c == CHOOSE c \in callers : TRUE
         IN ResolveLoop(ResolveCaller(g, c, class_methods), callers \ {c},
                        class_methods)

resolve_method_calls_skipped(g) == g

resolve_method_calls(g) ==
    ResolveLoop(g, DOMAIN g, build_class_methods_mapping(g))


\* self.graph[f]["called_by"], as a value
CalledBy(g, f) == IF f \in DOMAIN g THEN g[f].called_by ELSE {}

\* Optional[Set[str]]
NoVisited == [none |-> TRUE, set |-> {}]
Visited(s) == [none |-> FALSE, set |-> s]

cache_read_always(visited) == TRUE

\* "if visited is None and ..." (line 167)
cache_read_allowed(visited) == visited.none

cache_write_always(visited_set) == TRUE

\* "if len(visited) == 1" (line 189)
cache_write_allowed(visited_set) == Cardinality(visited_set) = 1

in_visited_never(f, visited_set) == FALSE

\* "if function_name in visited: return 0" (lines 173-174)
in_visited(f, visited_set) == f \in visited_set

direct_calls_unvisited(g, f, visited_set) == Cardinality(CalledBy(g, f) \ visited_set)

direct_calls_flag(g, f, visited_set) == IF CalledBy(g, f) # {} THEN 1 ELSE 0

\* "direct_calls = len(self.graph[function_name]['called_by'])" (line 179)
direct_calls(g, f, visited_set) == Cardinality(CalledBy(g, f))

\* get_impact(function_name, visited) with the cache threaded through:
\* [value |-> the int returned, cache |-> self._impact_cache afterwards]
RECURSIVE get_impact(_, _, _, _)
RECURSIVE IndirectCalls(_, _, _, _)
get_impact(g, cache, f, visited) ==
    IF cache_read_allowed(visited) /\ f \in DOMAIN cache
    THEN [value |-> cache[f], cache |-> cache]
    ELSE LET v0 == IF visited.none THEN {} ELSE visited.set
         IN IF in_visited(f, v0) THEN [value |-> 0, cache |-> cache]
            ELSE LET v == v0 \cup {f}
                     sub == IndirectCalls(g, cache, CalledBy(g, f), v)
                     total_impact == direct_calls(g, f, v) + sub.value
                 IN [value |-> total_impact,
                     cache |-> IF cache_write_allowed(v)
                               THEN (f :> total_impact) @@ sub.cache
                               ELSE sub.cache]

indirect_calls_skipped(g, cache, callers, v) == [value |-> 0, cache |-> cache]

\* the loop of lines 183-184; each caller gets visited.copy()
IndirectCalls(g, cache, callers, v) ==
    IF callers = {} THEN [value |-> 0, cache |-> cache]
    ELSE LET c == CHOOSE c \in callers : TRUE
             r == get_impact(g, cache, c, Visited(v))
             rest == IndirectCalls(g, r.cache, callers \ {c}, v)
         IN [value |-> r.value + rest.value, cache |-> rest.cache]

\* the names on which self.graph[...] is indexed by an uncached get_impact
RECURSIVE Indexed(_, _, _)
Indexed(g, f, v0) ==
    IF in_visited(f, v0) THEN {}
    ELSE {f} \cup UNION {Indexed(g, c, v0 \cup {f}) : c \in CalledBy(g, f)}

\* the graph after a top-level get_impact(f)
GraphAfterImpact(g, cache, f) ==
    IF f \in DOMAIN cache THEN g ELSE TouchAll(g, Indexed(g, f, {}))

----------------------------------------------------------------------------
(* Syntax trees, as ast.parse gives them.  An identifier is a token
   sequence too: "__init__" is <<"__", "init", "__">>, "save" is <<"save">>. *)

\* expressions that can be the func of a call
NameExpr(id) == [kind |-> "Name", id |-> id, value |-> <<>>]
AttributeExpr(value, attr) == [kind |-> "Attribute", id |-> attr, value |-> <<value>>]
\* any other expression, such as the result of a call: super().save()
OtherExpr == [kind |-> "Other", id |-> <<>>, value |-> <<>>]

\* statements and calls; body holds the child nodes
CallNode(func, args) ==
    [kind |-> "Call", name |-> <<>>, line |-> 0, func |-> <<func>>, body |-> args]
FunctionDef(name, line, body) ==
    [kind |-> "FunctionDef", name |-> name, line |-> line, func |-> <<>>, body |-> body]
ClassDef(name, body) ==
    [kind |-> "ClassDef", name |-> name, line |-> 0, func |-> <<>>, body |-> body]

\* CallGraphVisitor._get_attribute_chain; None is <<>>
RECURSIVE get_attribute_chain(_)
get_attribute_chain(node) ==
    LET value == node.value[1]
    IN IF value.kind = "Name" THEN DotJoin(value.id, node.id)
       ELSE IF value.kind = "Attribute"
       THEN LET parent == get_attribute_chain(value)
            IN IF parent # None THEN DotJoin(parent, node.id) ELSE None
       ELSE None

\* what visit_Call adds to self.calls for one call node
visit_Call(node) ==
    LET func == node.func[1]
    IN IF func.kind = "Name" THEN {func.id}
       ELSE IF func.kind = "Attribute"
       THEN LET value == func.value[1]
            IN IF value.kind = "Name" THEN {DotJoin(value.id, func.id)}
               ELSE IF value.kind = "Attribute"
               THEN LET attr_chain == get_attribute_chain(value)
                    IN IF attr_chain # None THEN {DotJoin(attr_chain, func.id)}
                       ELSE {}
               ELSE {}
       ELSE {}


\* CallGraphVisitor().visit(node): generic_visit descends into every child,
\* nested function and class definitions included
RECURSIVE collect_calls(_)
collect_calls(node) ==
    (IF node.kind = "Call" THEN visit_Call(node) ELSE {})
        \cup UNION {collect_calls(node.body[i]) : i \in 1..Len(node.body)}

starts_and_ends_never(func_name) == FALSE

\* func_name.startswith("__") and func_name.endswith("__")
starts_and_ends_with_dunder(func_name) ==
    /\ Len(func_name) >= 1
    /\ func_name[1] = "__"
    /\ Last(func_name) = "__"

\* FunctionVisitor.visit(node) with self.current_class = current_class: the
\* registrations it makes, in order.  Each is one add_function followed by
\* one add_call per member of calls.
RECURSIVE visit_node(_, _, _)
RECURSIVE visit_children(_, _, _)
visit_node(node, current_class, file_path_rel) ==
    IF node.kind = "ClassDef"
    THEN visit_children(node.body, node.name, file_path_rel)
    ELSE IF node.kind = "FunctionDef"
    THEN IF starts_and_ends_with_dunder(node.name)
         THEN visit_children(node.body, current_class, file_path_rel)
         ELSE <<[full_name |-> IF current_class # None
                               THEN ColonJoin(file_path_rel,
                                              DotJoin(current_class, node.name))
                               ELSE ColonJoin(file_path_rel, node.name),
                 file_path |-> file_path_rel,
                 line |-> node.line,
                 is_method |-> current_class # None,
                 class_name |-> current_class,
                 calls |-> collect_calls(node)]>>
              \o visit_children(node.body, current_class, file_path_rel)
    ELSE visit_children(node.body, current_class, file_path_rel)

visit_children(body, current_class, file_path_rel) ==
    IF body = <<>> THEN <<>>
    ELSE visit_node(body[1], current_class, file_path_rel)
            \o visit_children(Tail(body), current_class, file_path_rel)

RECURSIVE AddCallsFrom(_, _, _)
AddCallsFrom(g, caller, callees) ==
    IF callees = {} THEN g
    ELSE LET c == CHOOSE c \in callees : TRUE
         IN AddCallsFrom(add_call(g, caller, c), caller, callees \ {c})

\* lines 323-337 for each registration of a file
RECURSIVE Register(_, _)
Register(g, regs) ==
    IF regs = <<>> THEN g
    ELSE LET r == regs[1]
             g1 == add_function(g, r.full_name, r.file_path, r.line,
                                r.is_method, r.class_name)
         IN Register(AddCallsFrom(g1, r.full_name, r.calls), Tail(regs))

\* the keys that have a file, in the order the dict got them
RECURSIVE RegisterOrder(_, _)
RegisterOrder(ord, regs) ==
    IF regs = <<>> THEN ord
    ELSE RegisterOrder(
            IF \E i \in 1..Len(ord) : ord[i] = regs[1].full_name
            THEN ord ELSE Append(ord, regs[1].full_name),
            Tail(regs))

\* one iteration of the loop over files (lines 275-346); a file that fails
\* to open, decode or parse raises before anything is added
visit_file(g, file) ==
    IF file.parses THEN Register(g, visit_children(file.tree, None, file.path))
    ELSE g

----------------------------------------------------------------------------
(* Spec: one CallGraph object driven through its methods *)

SAVE_A == <<"m", ".", "py", "::", "A", ".", "save">>
SAVE_B == <<"m", ".", "py", "::", "B", ".", "save">>
RUN == <<"m", ".", "py", "::", "run">>
OBJ_SAVE == <<"obj", ".", "save">>
SELF_DB_SAVE == <<"self", ".", "db", ".", "save">>
DEEP_SAVE == <<"a", ".", "b", ".", "c", ".", "save">>
OBJ_LOAD == <<"obj", ".", "load">>
HELPER == <<"helper">>
M_PY == <<"m", ".", "py">>

\* the add_function calls build_call_graph would make for m.py
Definitions ==
    {[full_name |-> SAVE_A, file_path |-> M_PY, line |-> 2,
      is_method |-> TRUE, class_name |-> <<"A">>],
     [full_name |-> SAVE_B, file_path |-> M_PY, line |-> 5,
      is_method |-> TRUE, class_name |-> <<"B">>]}

Callers == {RUN, SAVE_A}
Callees == {OBJ_SAVE, SELF_DB_SAVE, DEEP_SAVE, OBJ_LOAD, HELPER, SAVE_A}
QueryNames == {SAVE_A, HELPER}

MaxCalls == 2

RECURSIVE CountCalls(_, _)
CountCalls(g, ks) ==
    IF ks = {} THEN 0
    ELSE LET k == CHOOSE k \in ks : TRUE
         IN Cardinality(g[k].calls) + CountCalls(g, ks \ {k})

EmptyGraph == <<>>
EmptyCache == <<>>

IdleTrace == stack = <<>> /\ queried = {}
IdleCall ==
    /\ coverage_file = "json"
    /\ estimated_complexity = <<>>
    /\ estimated_confidence = <<>>
    /\ call_args = <<>>
IdleBuild ==
    /\ files = <<>>
    /\ scanned = 0
    /\ order = <<>>
    /\ pc = "api"
    /\ coverage = <<>>
    /\ impact_scores = <<>>
    /\ prioritized = <<>>

Init ==
    /\ graph = EmptyGraph
    /\ impact_cache = EmptyCache
    /\ result = 0
    /\ last_op = "init"
    /\ pre_graph = EmptyGraph
    /\ IdleTrace
    /\ IdleBuild
    /\ IdleCall

AddFunction(d) ==
    /\ graph' = add_function(graph, d.full_name, d.file_path, d.line,
                             d.is_method, d.class_name)
    /\ last_op' = "add"
    /\ pre_graph' = EmptyGraph
    /\ UNCHANGED <<impact_cache, result, traceVars, buildVars, callVars>>

AddCall(caller, callee) ==
    /\ CountCalls(graph, DOMAIN graph) < MaxCalls
    /\ graph' = add_call(graph, caller, callee)
    /\ last_op' = "add"
    /\ pre_graph' = EmptyGraph
    /\ UNCHANGED <<impact_cache, result, traceVars, buildVars, callVars>>

ResolveMethodCalls ==
    /\ graph' = resolve_method_calls(graph)
    /\ last_op' = "resolve_method_calls"
    /\ pre_graph' = graph
    /\ UNCHANGED <<impact_cache, result, traceVars, buildVars, callVars>>

GetImpact(f) ==
    LET r == get_impact(graph, impact_cache, f, NoVisited)
    IN /\ result' = r.value
       /\ impact_cache' = r.cache
       /\ graph' = GraphAfterImpact(graph, impact_cache, f)
       /\ last_op' = "get_impact"
       /\ pre_graph' = graph
       /\ call_args' = f
       /\ UNCHANGED <<traceVars, buildVars, coverage_file, estimated_complexity,
                      estimated_confidence>>

Next ==
    \/ \E d \in Definitions : AddFunction(d)
    \/ \E caller \in Callers, callee \in Callees : AddCall(caller, callee)
    \/ ResolveMethodCalls
    \/ \E f \in QueryNames : GetImpact(f)

Spec == Init /\ [][Next]_vars

----------------------------------------------------------------------------
(* Claims about the CallGraph object (Spec) *)

Segments(name) == Split(name, ".")

\* the registered methods whose bare name is method_name
MethodsNamed(g, method_name) ==
    {n \in DOMAIN g : g[n].is_method /\ Last(Segments(n)) = method_name}

Resolved == last_op = "resolve_method_calls"

\* C1: after any sequence of add_function, add_call and resolve_method_calls,
\* for every pair of graph keys a and b, b is in calls[a] if and only if a is
\* in called_by[b].
C1_Symmetric ==
    \A a \in DOMAIN graph : \A b \in DOMAIN graph :
        (b \in graph[a].calls) <=> (a \in graph[b].called_by)

\* a resolution that rewrote the edges of a caller with two callees
C1_Witness ==
    /\ Resolved
    /\ graph # pre_graph
    /\ \E a \in DOMAIN graph : Cardinality(graph[a].calls) >= 2
    /\ \E b \in DOMAIN pre_graph :
          pre_graph[b].called_by # {} /\ graph[b].called_by = {}

\* C9: resolve_method_calls replaces each raw attribute call of two or three
\* segments whose last segment is the bare name of at least one method by
\* edges to every method of that name, and removes the raw edge: one method
\* named save gets every x.save call, two classes defining save both get it.
C9_ResolvedToAllMatches ==
    Resolved =>
      \A k \in DOMAIN pre_graph : \A c \in pre_graph[k].calls :
         LET matches == MethodsNamed(pre_graph, Last(Segments(c)))
         IN (Len(Segments(c)) \in {2, 3} /\ matches # {}) =>
               /\ matches \subseteq graph[k].calls
               /\ \A m \in matches : k \in graph[m].called_by
               /\ c \notin matches =>
                     (c \notin graph[k].calls /\ k \notin graph[c].called_by)

\* obj.save with save defined by class A and by class B
C9_Witness ==
    /\ Resolved
    /\ RUN \in DOMAIN pre_graph
    /\ OBJ_SAVE \in pre_graph[RUN].calls
    /\ MethodsNamed(pre_graph, <<"save">>) = {SAVE_A, SAVE_B}
    /\ graph[RUN].calls = {SAVE_A, SAVE_B}
    /\ graph[OBJ_SAVE].called_by = {}

\* a callee resolve_method_calls does not resolve
Unresolvable(g, c) ==
    \/ ~Contains(c, ".")
    \/ Len(Segments(c)) >= 4
    \/ /\ Len(Segments(c)) \in {2, 3}
       /\ MethodsNamed(g, Last(Segments(c))) = {}

\* C10: resolve_method_calls leaves in place every call edge whose callee has
\* no dot, has four or more segments, or has two or three segments the last of
\* which names no method: the callee stays in calls[caller] and the caller in
\* called_by[callee].
C10_UnresolvableKept ==
    Resolved =>
      \A k \in DOMAIN pre_graph : \A c \in pre_graph[k].calls :
         Unresolvable(pre_graph, c) =>
            (c \in graph[k].calls /\ k \in graph[c].called_by)

\* a.b.c.save is kept while obj.save of the same caller is resolved
C10_Witness ==
    /\ Resolved
    /\ RUN \in DOMAIN pre_graph
    /\ pre_graph[RUN].calls = {DEEP_SAVE, OBJ_SAVE}
    /\ graph[RUN].calls = {DEEP_SAVE, SAVE_A}
    /\ RUN \in graph[DEEP_SAVE].called_by

----------------------------------------------------------------------------
(* SpecQuery: get_impact queried at top level on a finished graph *)

FUNC1 == <<"module", ".", "py", "::", "func1">>
FUNC2 == <<"module", ".", "py", "::", "func2">>
FUNC3 == <<"module", ".", "py", "::", "func3">>
FUNC4 == <<"module", ".", "py", "::", "func4">>
MODULE_PY == <<"module", ".", "py">>

Funcs == {FUNC1, FUNC2, FUNC3, FUNC4}

MaxEdges == 4

EdgeSets == {E \in SUBSET (Funcs \X Funcs) : Cardinality(E) <= MaxEdges}

RECURSIVE AddFunctions(_, _)
AddFunctions(g, fs) ==
    IF fs = {} THEN g
    ELSE LET f == CHOOSE f \in fs : TRUE
         IN AddFunctions(add_function(g, f, MODULE_PY, 10, FALSE, None), fs \ {f})

RECURSIVE AddCalls(_, _)
AddCalls(g, E) ==
    IF E = {} THEN g
    ELSE LET e == CHOOSE e \in E : TRUE
         IN AddCalls(add_call(g, e[1], e[2]), E \ {e})

\* add_function for every function, then add_call(caller, callee) per edge
GraphOf(fs, E) == AddCalls(AddFunctions(EmptyGraph, fs), E)

InitQuery ==
    /\ \E E \in EdgeSets : graph = GraphOf(Funcs, E)
    /\ impact_cache = EmptyCache
    /\ result = 0
    /\ last_op = "init"
    /\ pre_graph = EmptyGraph
    /\ IdleTrace
    /\ IdleBuild
    /\ IdleCall

NextQuery == \E f \in Funcs : GetImpact(f)

SpecQuery == InitQuery /\ [][NextQuery]_vars

Edges(g) == {e \in (DOMAIN g) \X (DOMAIN g) : e[2] \in g[e[1]].calls}

\* the call chains ending in f: c[1] calls f, c[i+1] calls c[i], and f,
\* c[1], ..., c[k-1] are pairwise distinct (only the first caller of a chain
\* may be a function already on it).  ChainsFrom(g, f, S) is S with every
\* chain that extends a chain of S.
CanExtend(f, c) ==
    /\ Last(c) # f
    /\ \A i \in 1..(Len(c) - 1) : c[i] # Last(c)

RECURSIVE ChainsFrom(_, _, _)
ChainsFrom(g, f, S) ==
    IF S = {} THEN {}
    ELSE S \cup ChainsFrom(g, f,
            UNION {{Append(c, d) : d \in g[Last(c)].called_by} :
                      c \in {x \in S : CanExtend(f, x)}})

Chains(g, f) == ChainsFrom(g, f, {<<c>> : c \in g[f].called_by})

\* the impact of caller c with the functions of chain excluded
RECURSIVE ImpactExcluding(_, _, _)
RECURSIVE SumOneMore(_, _, _)
ImpactExcluding(g, c, chain) ==
    IF c \in chain THEN 0 ELSE SumOneMore(g, g[c].called_by, chain \cup {c})
SumOneMore(g, callers, chain) ==
    IF callers = {} THEN 0
    ELSE LET c == CHOOSE c \in callers : TRUE
         IN (1 + ImpactExcluding(g, c, chain)) + SumOneMore(g, callers \ {c}, chain)

IsDiamond(g) ==
    Edges(g) = {<<FUNC1, FUNC2>>, <<FUNC1, FUNC3>>, <<FUNC2, FUNC4>>, <<FUNC3, FUNC4>>}

\* C4: top-level get_impact(f) is the sum over the immediate callers c of f
\* of 1 plus the impact of c with the chain so far excluded, which counts
\* call chains with multiplicity; in the diamond func1 -> {func2, func3} ->
\* func4 the impact of func4 is 4.
C4_SumOverCallers ==
    \A f \in DOMAIN impact_cache :
        /\ impact_cache[f] = SumOneMore(graph, graph[f].called_by, {f})
        /\ impact_cache[f] = Cardinality(Chains(graph, f))
        /\ (IsDiamond(graph) /\ f = FUNC4) => impact_cache[f] = 4

C4_Witness ==
    /\ IsDiamond(graph)
    /\ last_op = "get_impact"
    /\ FUNC4 \in DOMAIN impact_cache
    /\ result = 4
    /\ impact_cache[FUNC4] = 4

\* the graph is the chain s[1] -> s[2] -> ... -> s[n] and nothing else
IsChainOf(g, s) ==
    /\ \A i \in 1..Len(s) : \A j \in 1..Len(s) : i # j => s[i] # s[j]
    /\ Edges(g) = {<<s[i], s[i + 1]>> : i \in 1..(Len(s) - 1)}

ChainOrders == UNION {[1..n -> Funcs] : n \in 2..Cardinality(Funcs)}

\* C5: in a linear call chain f1 -> f2 -> ... -> fn, get_impact(fk) = k - 1.
C5_LinearChain ==
    (/\ Edges(graph) # {}
     /\ \A f \in DOMAIN graph : Cardinality(graph[f].calls) <= 1
     /\ \A f \in DOMAIN graph : Cardinality(graph[f].called_by) <= 1) =>
        \A s \in ChainOrders :
            IsChainOf(graph, s) =>
                \A k \in 1..Len(s) :
                    s[k] \in DOMAIN impact_cache => impact_cache[s[k]] = k - 1

\* func1 -> func2 -> func3 with all three queried
C5_Witness ==
    /\ IsChainOf(graph, <<FUNC1, FUNC2, FUNC3>>)
    /\ {FUNC1, FUNC2, FUNC3} \subseteq DOMAIN impact_cache
    /\ impact_cache[FUNC3] = 2
    /\ impact_cache[FUNC2] = 1
    /\ impact_cache[FUNC1] = 0

\* C6: a function whose direct callers have no callers themselves has an
\* impact equal to the number of its direct callers (0 with no caller, 2 with
\* two independent callers).
C6_DirectCallersOnly ==
    \A f \in DOMAIN impact_cache :
        (\A c \in graph[f].called_by : graph[c].called_by = {}) =>
            impact_cache[f] = Cardinality(graph[f].called_by)

\* func2 and func3 both call func1; nobody calls func4
C6_Witness ==
    /\ Edges(graph) = {<<FUNC2, FUNC1>>, <<FUNC3, FUNC1>>}
    /\ {FUNC1, FUNC4} \subseteq DOMAIN impact_cache
    /\ impact_cache[FUNC1] = 2
    /\ impact_cache[FUNC4] = 0

----------------------------------------------------------------------------
(* SpecImpact: get_impact executed call by call, with its recursion stack *)

TraceFuncs == {FUNC1, FUNC2, FUNC3}

MaxTraceEdges == 4

\* frames the interpreter is allowed to stack
MaxDepth == 5

TraceEdgeSets ==
    {E \in SUBSET (TraceFuncs \X TraceFuncs) : Cardinality(E) <= MaxTraceEdges}

NoFrame == [fn |-> None, visited |-> {}, todo |-> {}, direct |-> 0, indirect |-> 0]

\* lines 166-179 of a call get_impact(f, visited): it returns at once (a
\* cached value, or 0 for a function already visited) or starts its loop
Enter(g, cache, f, visited) ==
    IF cache_read_allowed(visited) /\ f \in DOMAIN cache
    THEN [returns |-> TRUE, value |-> cache[f], frame |-> NoFrame]
    ELSE LET v0 == IF visited.none THEN {} ELSE visited.set
         IN IF in_visited(f, v0)
            THEN [returns |-> TRUE, value |-> 0, frame |-> NoFrame]
            ELSE [returns |-> FALSE, value |-> 0,
                  frame |-> [fn |-> f, visited |-> v0 \cup {f},
                             todo |-> CalledBy(g, f),
                             direct |-> direct_calls(g, f, v0 \cup {f}),
                             indirect |-> 0]]

Top == stack[Len(stack)]

SetTop(st, frame) == [st EXCEPT ![Len(st)] = frame]

InitImpact ==
    /\ \E E \in TraceEdgeSets : graph = GraphOf(TraceFuncs, E)
    /\ impact_cache = EmptyCache
    /\ result = 0
    /\ last_op = "init"
    /\ pre_graph = EmptyGraph
    /\ IdleTrace
    /\ IdleBuild
    /\ IdleCall

\* a caller of the CallGraph calls get_impact(f)
CallTop(f) ==
    /\ stack = <<>>
    /\ LET o == Enter(graph, impact_cache, f, NoVisited)
       IN IF o.returns
          THEN /\ result' = o.value
               /\ UNCHANGED <<stack, graph>>
          ELSE /\ stack' = <<o.frame>>
               /\ graph' = Touch(graph, f)
               /\ UNCHANGED result
    /\ queried' = queried \cup {f}
    /\ last_op' = "get_impact"
    /\ UNCHANGED <<impact_cache, pre_graph, buildVars, callVars>>

\* line 184: the next caller of the loop is passed visited.copy()
SubCall ==
    /\ stack # <<>>
    /\ Top.todo # {}
    /\ LET c == CHOOSE c \in Top.todo : TRUE
           o == Enter(graph, impact_cache, c, Visited(Top.visited))
           rest == [Top EXCEPT !.todo = @ \ {c}]
       IN IF o.returns
          THEN /\ stack' = SetTop(stack, [rest EXCEPT !.indirect = @ + o.value])
               /\ UNCHANGED graph
          ELSE /\ Len(stack) < MaxDepth
               /\ stack' = Append(SetTop(stack, rest), o.frame)
               /\ graph' = Touch(graph, c)
    /\ UNCHANGED <<impact_cache, result, queried, last_op, pre_graph, buildVars, callVars>>

\* lines 186-192: the loop is over
Return ==
    /\ stack # <<>>
    /\ Top.todo = {}
    /\ LET total_impact == Top.direct + Top.indirect
           below == SubSeq(stack, 1, Len(stack) - 1)
       IN /\ impact_cache' = IF cache_write_allowed(Top.visited)
                             THEN (Top.fn :> total_impact) @@ impact_cache
                             ELSE impact_cache
          /\ IF below = <<>>
             THEN stack' = <<>> /\ result' = total_impact
             ELSE /\ stack' = SetTop(below,
                                [below[Len(below)] EXCEPT !.indirect = @ + total_impact])
                  /\ UNCHANGED result
    /\ UNCHANGED <<graph, queried, last_op, pre_graph, buildVars, callVars>>

Step == SubCall \/ Return

NextImpact ==
    \/ \E f \in TraceFuncs : CallTop(f)
    \/ SubCall
    \/ Return

SpecImpact == InitImpact /\ [][NextImpact]_vars

\* a started call keeps running: the code is sequential and synchronous
FairSpecImpact == SpecImpact /\ WF_vars(Step)

\* C7: get_impact terminates on every finite call graph, cycles and
\* self-calls included: every started call unwinds its whole stack, the
\* recursion is never deeper than the number of functions, and what is
\* returned or cached is a non-negative integer.
C7_Terminates ==
    /\ (stack # <<>>) ~> (stack = <<>>)
    /\ [](Len(stack) <= Cardinality(DOMAIN graph))
    /\ [](result \in Nat /\ \A f \in DOMAIN impact_cache : impact_cache[f] \in Nat)

\* func1 and func2 call each other, func3 calls itself; all three queried
C7_Witness ==
    /\ stack = <<>>
    /\ Edges(graph) = {<<FUNC1, FUNC2>>, <<FUNC2, FUNC1>>, <<FUNC3, FUNC3>>}
    /\ DOMAIN impact_cache = {FUNC1, FUNC2, FUNC3}
    /\ impact_cache[FUNC1] = 2
    /\ impact_cache[FUNC2] = 2
    /\ impact_cache[FUNC3] = 1

\* the callers of frame i whose sub-call has returned
Returned(i) ==
    (CalledBy(graph, stack[i].fn) \ stack[i].todo)
        \ (IF i < Len(stack) THEN {stack[i + 1].fn} ELSE {})

\* C8: only top-level get_impact calls write or read the cache: the cache
\* keys are exactly the functions whose top-level query has finished, also
\* while sub-calls run, and what a sub-call for caller c returned to a frame
\* is the uncached traversal of c under that frame's visited set.
C8_TopLevelCacheOnly ==
    /\ DOMAIN impact_cache =
          (IF stack = <<>> THEN queried ELSE queried \ {stack[1].fn})
    /\ \A i \in 1..Len(stack) :
          stack[i].indirect =
              SumOneMore(graph, Returned(i), stack[i].visited)
                  - Cardinality(Returned(i))

\* a sub-call for a cached function returned a value other than the cached one
C8_Witness ==
    /\ queried # {}
    /\ \E i \in 1..Len(stack) : \E c \in Returned(i) :
          /\ c \in DOMAIN impact_cache
          /\ c \notin stack[i].visited
          /\ impact_cache[c] # ImpactExcluding(graph, c, stack[i].visited)
          /\ Returned(i) = {c}
          /\ stack[i].indirect # impact_cache[c]

----------------------------------------------------------------------------
(* SpecBuild: build_call_graph over source files, then
   calculate_impact_scores and prioritize_functions *)

Id(name) == <<name>>
DUNDER_IMPORT == <<"__", "import", "__">>
DUNDER_INIT == <<"__", "init", "__">>
DUNDER_CALL == <<"__", "call", "__">>

\* def outer(): helper()        (line 1)
\* def helper(): deep()         (line 5)
\* def deep(): pass             (line 10)
ChainSource ==
    <<FunctionDef(Id("outer"), 1, <<CallNode(NameExpr(Id("helper")), <<>>)>>),
      FunctionDef(Id("helper"), 5, <<CallNode(NameExpr(Id("deep")), <<>>)>>),
      FunctionDef(Id("deep"), 10, <<>>)>>

\* def loader():
\*     __import__(obj.__call__())
\*     a.b.c.save()
DunderCallSource ==
    <<FunctionDef(Id("loader"), 1,
        <<CallNode(NameExpr(DUNDER_IMPORT),
             <<CallNode(AttributeExpr(NameExpr(Id("obj")), DUNDER_CALL), <<>>)>>),
          CallNode(AttributeExpr(
                     AttributeExpr(AttributeExpr(NameExpr(Id("a")), Id("b")), Id("c")),
                     Id("save")), <<>>)>>)>>

\* class A:
\*     def __init__(self):
\*         self.save()
\*         def inner(): deep()
\*     def save(self):
\*         self.db.save()
ClassASource ==
    <<ClassDef(Id("A"),
        <<FunctionDef(DUNDER_INIT, 2,
            <<CallNode(AttributeExpr(NameExpr(Id("self")), Id("save")), <<>>),
              FunctionDef(Id("inner"), 4, <<CallNode(NameExpr(Id("deep")), <<>>)>>)>>),
          FunctionDef(Id("save"), 6,
            <<CallNode(AttributeExpr(AttributeExpr(NameExpr(Id("self")), Id("db")),
                                     Id("save")), <<>>)>>)>>)>>

\* class B:
\*     def save(self):
\*         super().save()
\* def run():
\*     def inner(): obj.save()
\*     helper()
ClassBSource ==
    <<ClassDef(Id("B"),
        <<FunctionDef(Id("save"), 2,
            <<CallNode(AttributeExpr(OtherExpr, Id("save")),
                       <<CallNode(NameExpr(Id("super")), <<>>)>>)>>)>>),
      FunctionDef(Id("run"), 5,
        <<FunctionDef(Id("inner"), 6,
            <<CallNode(AttributeExpr(NameExpr(Id("obj")), Id("save")), <<>>)>>),
          CallNode(NameExpr(Id("helper")), <<>>)>>)>>

\* a module with only a dunder function and a class without methods
NoFunctionSource ==
    <<FunctionDef(<<"__", "getattr", "__">>, 1, <<>>), ClassDef(Id("Empty"), <<>>)>>

\* class C:
\*     def __init__(self):
\*         self.setup()
DunderOnlySource ==
    <<ClassDef(Id("C"),
        <<FunctionDef(DUNDER_INIT, 2,
            <<CallNode(AttributeExpr(NameExpr(Id("self")), Id("setup")), <<>>)>>)>>)>>

Sources ==
    <<ChainSource, DunderCallSource, ClassASource, ClassBSource, NoFunctionSource,
      DunderOnlySource>>

FileNames == <<"a", "b", "c", "d">>

\* the i-th file find_python_files returns, relative to the root
FilePath(i) == <<FileNames[i], ".", "py">>

\* a file that cannot be opened, decoded or parsed: open() or ast.parse()
\* (lines 277-280) raises the exception named by error
FailedFile(i, error) ==
    [path |-> FilePath(i), parses |-> FALSE, tree |-> <<>>, error |-> error]
Unparsable(i) == FailedFile(i, "SyntaxError")
SourceFile(i, tree) ==
    [path |-> FilePath(i), parses |-> TRUE, tree |-> tree, error |-> ""]

MaxFiles == 2

\* content 0 is a file that does not parse
FileOf(i, content) ==
    IF content = 0 THEN Unparsable(i) ELSE SourceFile(i, Sources[content])

FileLists ==
    UNION {{[i \in 1..n |-> FileOf(i, c[i])] : c \in [1..n -> 0..Len(Sources)]} :
           n \in 0..MaxFiles}

----------------------------------------------------------------------------
(* Rational numbers <<n, d>> with d > 0 stand for the floats of the code *)

RECURSIVE Gcd(_, _)
Gcd(a, b) == IF b = 0 THEN a ELSE Gcd(b, a % b)

Abs(n) == IF n < 0 THEN 0 - n ELSE n

\* lowest terms, positive denominator
RNorm(n, d) ==
    LET k == Gcd(Abs(n), Abs(d))
        s == IF d < 0 THEN 0 - 1 ELSE 1
    IN <<s * (n \div k), s * (d \div k)>>
RLess(a, b) == a[1] * b[2] < b[1] * a[2]
REq(a, b) == a[1] * b[2] = b[1] * a[2]
RMul(a, b) == RNorm(a[1] * b[1], a[2] * b[2])
RDiv(a, b) == RNorm(a[1] * b[2], a[2] * b[1])
RInt(n) == <<n, 1>>
RIsZero(a) == a[1] = 0

----------------------------------------------------------------------------
(* ImpactCalculator *)

\* str.replace(old, new) for one-token old and new
Replace(str, old, new) == [i \in 1..Len(str) |-> IF str[i] = old THEN new ELSE str[i]]

FileKeys_normalized_first(file_path, package_prefix) ==
    <<Replace(file_path, "\\", "/"),
      IF package_prefix # None THEN package_prefix \o <<"/">> \o file_path
      ELSE file_path,
      file_path>>

\* the candidate keys of lines 37-41
FileKeys(file_path, package_prefix) ==
    <<file_path,
      IF package_prefix # None THEN package_prefix \o <<"/">> \o file_path
      ELSE file_path,
      Replace(file_path, "\\", "/")>>

NoCoverage_covered == [is_covered |-> TRUE, coverage_pct |-> RInt(1), function_missing |-> 0]

\* covered_lines / total_lines if total_lines > 0 else 0.0
CoveragePct(total_lines, covered_lines) ==
    IF total_lines > 0 THEN <<covered_lines, total_lines>> ELSE RInt(0)

NoCoverage == [is_covered |-> FALSE, coverage_pct |-> RInt(0), function_missing |-> 0]

\* files_data maps a path to [num_statements, covered_lines, executed_lines,
\* missing_lines]; a coverage file without "files" is the empty map
get_function_coverage(files_data, file_path, line_num, package_prefix) ==
    LET file_keys == FileKeys(file_path, package_prefix)
        hits == {i \in 1..Len(file_keys) : file_keys[i] \in DOMAIN files_data}
    IN IF hits = {} THEN NoCoverage
       ELSE LET first == CHOOSE i \in hits : \A j \in hits : i <= j
                file_data == files_data[file_keys[first]]
                total_lines == file_data.num_statements
                covered_lines == file_data.covered_lines
            IN [is_covered |-> line_num \in file_data.executed_lines,
                coverage_pct |-> CoveragePct(total_lines, covered_lines),
                function_missing |->
                    Cardinality({l \in file_data.missing_lines :
                                   line_num <= l /\ l <= line_num + 50})]

StartsWith(str, prefix) ==
    Len(prefix) <= Len(str) /\ SubSeq(str, 1, Len(prefix)) = prefix

ImpactScore_by_coverage(impact, coverage_pct) ==
    <<impact * coverage_pct[1], coverage_pct[2]>>

\* impact * (1.0 - coverage_pct)
ImpactScore(impact, coverage_pct) ==
    <<impact * (coverage_pct[2] - coverage_pct[1]), coverage_pct[2]>>

\* the functions get_impact is called for (lines 82-89)
Scored(g, package_prefix) ==
    {k \in DOMAIN g : package_prefix # None => StartsWith(k, package_prefix)}

\* self._impact_cache after the loop of calculate_impact_scores
RECURSIVE CacheAfterScoring(_, _, _)
CacheAfterScoring(g, cache, ks) ==
    IF ks = {} THEN cache
    ELSE LET k == CHOOSE k \in ks : TRUE
         IN CacheAfterScoring(g, get_impact(g, cache, k, NoVisited).cache, ks \ {k})

\* the dict of lines 103-116 for one function
ScoreEntry(g, cache, files_data, func_name, package_prefix) ==
    LET impact == get_impact(g, cache, func_name, NoVisited).value
        c == get_function_coverage(files_data, g[func_name].file,
                                   g[func_name].line, package_prefix)
    IN [function |-> func_name,
        file |-> g[func_name].file,
        line |-> g[func_name].line,
        impact |-> impact,
        covered |-> c.is_covered,
        coverage_percentage |-> c.coverage_pct,
        missing_lines |-> c.function_missing,
        impact_score |-> ImpactScore(impact, c.coverage_pct),
        is_method |-> g[func_name].is_method,
        class_name |-> g[func_name].class_name]

\* list.sort(key=impact_score, reverse=True): stable, highest first
RECURSIVE InsertByScore(_, _)
InsertByScore(sorted, x) ==
    IF sorted = <<>> THEN <<x>>
    ELSE IF RLess(sorted[1].impact_score, x.impact_score)
    THEN <<x>> \o sorted
    ELSE <<sorted[1]>> \o InsertByScore(Tail(sorted), x)

RECURSIVE SortByScore(_, _)
SortByScore(sorted, rest) ==
    IF rest = <<>> THEN sorted
    ELSE SortByScore(InsertByScore(sorted, rest[1]), Tail(rest))

\* keys is the dict's keys in insertion order
RECURSIVE ScoreEntries(_, _, _, _, _)
ScoreEntries(g, cache, files_data, keys, package_prefix) ==
    IF keys = <<>> THEN <<>>
    ELSE LET k == keys[1]
             rest == ScoreEntries(g, cache, files_data, Tail(keys), package_prefix)
         IN IF /\ k \in Scored(g, package_prefix)
               /\ g[k].file # None
               /\ g[k].line # 0
            THEN <<ScoreEntry(g, cache, files_data, k, package_prefix)>> \o rest
            ELSE rest

calculate_impact_scores(g, cache, files_data, keys, package_prefix) ==
    SortByScore(<<>>, ScoreEntries(g, cache, files_data, keys, package_prefix))

----------------------------------------------------------------------------
(* Prioritizer.  Complexity and confidence are tenths: 5 is 0.5. *)

Tenths(k) == <<k, 10>>

calculate_priority_inverted(impact_score, complexity_score, confidence, effort_multiplier) ==
    RDiv(RMul(RMul(impact_score, confidence),
              <<complexity_score[1] * 10 + complexity_score[2], complexity_score[2] * 10>>),
         <<effort_multiplier[1] * 10 + effort_multiplier[2], effort_multiplier[2] * 10>>)

\* (impact_score * confidence) / ((complexity_score + 0.1) * (effort_multiplier + 0.1))
calculate_priority(impact_score, complexity_score, confidence, effort_multiplier) ==
    RDiv(RMul(impact_score, confidence),
         RMul(<<complexity_score[1] * 10 + complexity_score[2], complexity_score[2] * 10>>,
              <<effort_multiplier[1] * 10 + effort_multiplier[2],
                effort_multiplier[2] * 10>>))

RECURSIVE MaxScore(_)
MaxScore(items) ==
    IF Len(items) = 1 THEN items[1].impact_score
    ELSE LET m == MaxScore(Tail(items))
         IN IF RLess(items[1].impact_score, m) THEN m ELSE items[1].impact_score

\* lines 66-100 for one item
PriorityEntry(item, max_impact, complexity_scores, confidence_scores) ==
    LET complexity == IF item.function \in DOMAIN complexity_scores
                      THEN Tenths(complexity_scores[item.function]) ELSE Tenths(5)
        confidence == IF item.function \in DOMAIN confidence_scores
                      THEN Tenths(confidence_scores[item.function]) ELSE Tenths(10)
        normalized_impact == RMul(RDiv(item.impact_score, max_impact), RInt(100))
        effort == <<complexity[2] + 2 * complexity[1], complexity[2]>>
    IN [function |-> item.function,
        file |-> item.file,
        line |-> item.line,
        impact |-> item.impact,
        covered |-> item.covered,
        coverage_percentage |-> item.coverage_percentage,
        missing_lines |-> item.missing_lines,
        impact_score |-> item.impact_score,
        is_method |-> item.is_method,
        class_name |-> item.class_name,
        complexity_score |-> complexity,
        confidence |-> confidence,
        priority |-> calculate_priority(normalized_impact, complexity,
                                        confidence, effort),
        impact_score_normalized |-> normalized_impact]

SortKeyLess_priority_only(x, y) == RLess(x.priority, y.priority)

\* (priority, impact) compared as Python compares tuples
SortKeyLess(x, y) ==
    \/ RLess(x.priority, y.priority)
    \/ REq(x.priority, y.priority) /\ x.impact < y.impact

\* list.sort(key=(priority, impact), reverse=True): stable, highest first
RECURSIVE InsertByPriority(_, _)
InsertByPriority(sorted, x) ==
    IF sorted = <<>> THEN <<x>>
    ELSE IF SortKeyLess(sorted[1], x)
    THEN <<x>> \o sorted
    ELSE <<sorted[1]>> \o InsertByPriority(Tail(sorted), x)

RECURSIVE SortByPriority(_, _)
SortByPriority(sorted, rest) ==
    IF rest = <<>> THEN sorted
    ELSE SortByPriority(InsertByPriority(sorted, rest[1]), Tail(rest))

has_impact_score(f) == ~RIsZero(f.impact_score)

\* f.get("impact", 0) > 0
has_impact(f) == f.impact > 0

prioritize_functions(scores, complexity_scores, confidence_scores) ==
    IF scores = <<>> THEN <<>>
    ELSE LET m == MaxScore(scores)
             max_impact == IF RIsZero(m) THEN RInt(1) ELSE m
             prioritized_all ==
                 SortByPriority(<<>>,
                     [i \in 1..Len(scores) |->
                         PriorityEntry(scores[i], max_impact,
                                       complexity_scores, confidence_scores)])
             prioritized_with_impact ==
                 SelectSeq(prioritized_all, has_impact)
         IN IF prioritized_with_impact # <<>> THEN prioritized_with_impact
            ELSE prioritized_all

----------------------------------------------------------------------------
(* SpecBuild: the steps *)

\* what coverage.json says of one file
CoverageRecords ==
    {[num_statements |-> 3, covered_lines |-> 1,
      executed_lines |-> {1}, missing_lines |-> {5, 10}],
     [num_statements |-> 3, covered_lines |-> 3,
      executed_lines |-> {1, 5, 10}, missing_lines |-> {}],
     [num_statements |-> 0, covered_lines |-> 0,
      executed_lines |-> {}, missing_lines |-> {}],
     [num_statements |-> 2, covered_lines |-> 3,
      executed_lines |-> {1, 5}, missing_lines |-> {}]}

\* coverage.json: any subset of the scanned files, each with one record
CoverageFiles(fs) ==
    UNION {[P -> CoverageRecords] : P \in SUBSET {fs[i].path : i \in 1..Len(fs)}}

InitBuild ==
    /\ files \in FileLists
    /\ scanned = 0
    /\ order = <<>>
    /\ pc = "scan"
    /\ coverage = <<>>
    /\ impact_scores = <<>>
    /\ prioritized = <<>>
    /\ graph = EmptyGraph
    /\ impact_cache = EmptyCache
    /\ result = 0
    /\ last_op = "init"
    /\ pre_graph = EmptyGraph
    /\ IdleTrace
    /\ IdleCall

\* line 344: the exceptions the loop body catches
skipped_on(error) == error \in {"SyntaxError", "UnicodeDecodeError", "IOError"}

\* one iteration of "for file_path in files"; an exception that line 344
\* does not name leaves build_call_graph
VisitFile ==
    /\ pc = "scan"
    /\ scanned < Len(files)
    /\ LET file == files[scanned + 1]
       IN IF file.parses \/ skipped_on(file.error)
          THEN /\ graph' = visit_file(graph, file)
               /\ order' = IF file.parses
                           THEN RegisterOrder(order,
                                    visit_children(file.tree, None, file.path))
                           ELSE order
               /\ scanned' = scanned + 1
               /\ pc' = pc
          ELSE /\ pc' = file.error
               /\ UNCHANGED <<graph, order, scanned>>
    /\ UNCHANGED <<impact_cache, result, last_op, pre_graph, traceVars, callVars,
                   files, coverage, impact_scores, prioritized>>

\* lines 348-351: after the loop
ResolveAndReturn ==
    /\ pc = "scan"
    /\ scanned = Len(files)
    /\ graph' = resolve_method_calls(graph)
    /\ pre_graph' = graph
    /\ last_op' = "resolve_method_calls"
    /\ pc' = "built"
    /\ UNCHANGED <<impact_cache, result, traceVars, callVars,
                   files, scanned, order, coverage, impact_scores, prioritized>>

\* ImpactCalculator(call_graph, coverage_data).calculate_impact_scores(); a
\* dict that grows while it is iterated raises RuntimeError
CalculateImpactScoresAt(at, files_data) ==
    /\ pc = at
    /\ coverage' = files_data
    /\ IF \E k \in DOMAIN graph : ~(Indexed(graph, k, {}) \subseteq DOMAIN graph)
       THEN /\ pc' = "RuntimeError"
            /\ UNCHANGED <<impact_cache, impact_scores>>
       ELSE /\ pc' = "scored"
            /\ impact_cache' = CacheAfterScoring(graph, impact_cache, Scored(graph, None))
            /\ impact_scores' = calculate_impact_scores(graph, impact_cache, files_data,
                                                         order, None)
    /\ UNCHANGED <<graph, result, last_op, pre_graph, traceVars, callVars,
                   files, scanned, order, prioritized>>

CalculateImpactScores(files_data) == CalculateImpactScoresAt("built", files_data)

\* Prioritizer.prioritize_functions(impact_scores) without complexity data
Prioritize ==
    /\ pc = "scored"
    /\ prioritized' = prioritize_functions(impact_scores, <<>>, <<>>)
    /\ pc' = "prioritized"
    /\ UNCHANGED <<apiVars, traceVars, callVars, files, scanned, order, coverage, impact_scores>>

NextBuild ==
    \/ VisitFile
    \/ ResolveAndReturn
    \/ \E files_data \in CoverageFiles(files) : CalculateImpactScores(files_data)
    \/ Prioritize

SpecBuild == InitBuild /\ [][NextBuild]_vars

----------------------------------------------------------------------------
(* Claims checked under SpecBuild *)

Built == pc \in {"built", "scored", "prioritized", "RuntimeError"}

\* the part of a key after its last "." or "::"
NameOf(key) ==
    LET seps == {i \in 1..Len(key) : key[i] \in {".", "::"}}
    IN IF seps = {} THEN key
       ELSE SubSeq(key, (CHOOSE i \in seps : \A j \in seps : j <= i) + 1, Len(key))

IsDunder(name) == Len(name) >= 1 /\ name[1] = "__" /\ Last(name) = "__"

\* the function definitions of a tree, nested ones included: [name, line]
RECURSIVE DefsOf(_)
DefsOf(body) ==
    IF body = <<>> THEN {}
    ELSE (IF body[1].kind = "FunctionDef"
          THEN {[name |-> body[1].name, line |-> body[1].line]} ELSE {})
         \cup (IF body[1].kind \in {"FunctionDef", "ClassDef"}
               THEN DefsOf(body[1].body) ELSE {})
         \cup DefsOf(Tail(body))

ScannedDefs ==
    UNION {DefsOf(files[i].tree) : i \in {j \in 1..scanned : files[j].parses}}

CHAIN_OUTER == ColonJoin(FilePath(1), Id("outer"))
CHAIN_HELPER == ColonJoin(FilePath(1), Id("helper"))
CHAIN_DEEP == ColonJoin(FilePath(1), Id("deep"))

ChainCoverage ==
    [num_statements |-> 3, covered_lines |-> 1,
     executed_lines |-> {1}, missing_lines |-> {5, 10}]

\* the end-to-end scenario: the chain file alone, line 1 executed, 5 and 10 missing
ChainScenario ==
    /\ files = <<SourceFile(1, ChainSource)>>
    /\ pc = "prioritized"
    /\ DOMAIN coverage = {FilePath(1)}
    /\ coverage[FilePath(1)] = ChainCoverage

ImpactIn(scores, f) ==
    {scores[i].impact : i \in {j \in 1..Len(scores) : scores[j].function = f}}

\* C2 (as stated): in the end-to-end scenario impact(deep) = 2,
\* impact(helper) = 1, impact(outer) = 0 and the ranked list is deep, helper
\* with outer dropped by the zero-impact filter.
C2_ChainRanked ==
    ChainScenario =>
        /\ ImpactIn(impact_scores, CHAIN_DEEP) = {2}
        /\ ImpactIn(impact_scores, CHAIN_HELPER) = {1}
        /\ ImpactIn(impact_scores, CHAIN_OUTER) = {0}
        /\ [i \in 1..Len(prioritized) |-> prioritized[i].function]
              = <<CHAIN_DEEP, CHAIN_HELPER>>

\* what the code produces in the scenario: the edges go to the bare names
\* "helper" and "deep", every registered function has impact 0, and the
\* fallback keeps all three in registration order
C2_Observed ==
    ChainScenario =>
        /\ graph[CHAIN_OUTER].calls = {Id("helper")}
        /\ graph[CHAIN_HELPER].called_by = {}
        /\ graph[Id("helper")].called_by = {CHAIN_OUTER}
        /\ \A f \in {CHAIN_OUTER, CHAIN_HELPER, CHAIN_DEEP} :
              ImpactIn(impact_scores, f) = {0}
        /\ [i \in 1..Len(prioritized) |-> prioritized[i].function]
              = <<CHAIN_OUTER, CHAIN_HELPER, CHAIN_DEEP>>

C2_ScenarioReached == ChainScenario

\* C3 (as stated): after build_call_graph no key of the graph is a dunder
\* name, neither as a registered definition nor as a call target.
C3_NoDunderKey ==
    Built => \A k \in DOMAIN graph : ~IsDunder(NameOf(k))

\* C3 (amended): after build_call_graph no key registered as a definition
\* (a key that has a file and a line) has a dunder function name; a dunder key
\* can only be a call target, which has neither.
C3_NoDunderDefinition ==
    Built => \A k \in DOMAIN graph :
                IsDunder(NameOf(k)) => graph[k].file = None /\ graph[k].line = 0

\* a scanned file defines __init__, a body calls __import__(...) and
\* obj.__call__(), and the two call targets are keys of the built graph
C3_Witness ==
    /\ Built
    /\ \E d \in ScannedDefs : IsDunder(d.name)
    /\ DUNDER_IMPORT \in DOMAIN graph
    /\ DotJoin(Id("obj"), DUNDER_CALL) \in DOMAIN graph

----------------------------------------------------------------------------
(* SpecPrioritize: Prioritizer.prioritize_functions called on a list of impact
   score entries, with and without complexity and confidence data *)

MaxItems == 3
RawImpacts == {1, 2}

ItemNames == <<FUNC1, FUNC2, FUNC3, FUNC4, ColonJoin(MODULE_PY, Id("func5"))>>

\* file coverage of an entry: none, full, and a summary whose covered_lines
\* (3) exceeds its num_statements (2)
ItemCoverage == {<<0, 1>>, <<1, 1>>, <<3, 2>>}

\* an entry as calculate_impact_scores builds it (lines 103-116)
ImpactScoreEntry(func_name, impact, coverage_pct) ==
    [function |-> func_name,
     file |-> MODULE_PY,
     line |-> 1,
     impact |-> impact,
     covered |-> FALSE,
     coverage_percentage |-> coverage_pct,
     missing_lines |-> 0,
     impact_score |-> ImpactScore(impact, coverage_pct),
     is_method |-> FALSE,
     class_name |-> None]

ItemChoices ==
    {<<0, <<0, 1>>>>} \cup (RawImpacts \X ItemCoverage)

ImpactScoreLists ==
    UNION {{[i \in 1..n |-> ImpactScoreEntry(ItemNames[i], c[i][1], c[i][2])] :
              c \in [1..n -> ItemChoices]} : n \in 0..MaxItems}

\* complexity 0.2 for any subset of the functions
ComplexityMaps(n) == UNION {[P -> {2}] : P \in SUBSET {ItemNames[i] : i \in 1..n}}

\* no confidence data, confidence 0.5 for all, confidence 0.0 for the first
ConfidenceMaps(n) ==
    {<<>>, [f \in {ItemNames[i] : i \in 1..n} |-> 5]}
    \cup (IF n > 0 THEN {[f \in {ItemNames[1]} |-> 0]} ELSE {})

InitPrioritize ==
    /\ impact_scores \in ImpactScoreLists
    /\ estimated_complexity \in ComplexityMaps(Len(impact_scores))
    /\ estimated_confidence \in ConfidenceMaps(Len(impact_scores))
    /\ prioritized = <<>>
    /\ pc = "scored"
    /\ files = <<>>
    /\ scanned = 0
    /\ order = <<>>
    /\ coverage = <<>>
    /\ coverage_file = "json"
    /\ call_args = <<>>
    /\ graph = EmptyGraph
    /\ impact_cache = EmptyCache
    /\ result = 0
    /\ last_op = "init"
    /\ pre_graph = EmptyGraph
    /\ IdleTrace

\* Prioritizer.prioritize_functions(impact_scores, complexity_scores, confidence_scores)
PrioritizeWith ==
    /\ pc = "scored"
    /\ prioritized' = prioritize_functions(impact_scores, estimated_complexity,
                                           estimated_confidence)
    /\ pc' = "prioritized"
    /\ UNCHANGED <<apiVars, traceVars, files, scanned, order, coverage, impact_scores,
                   callVars>>

NextPrioritize == PrioritizeWith

SpecPrioritize == InitPrioritize /\ [][NextPrioritize]_vars

----------------------------------------------------------------------------
(* Claims checked under SpecPrioritize *)

Returned_prioritized == pc = "prioritized"

FunctionsOf(list) == {list[i].function : i \in 1..Len(list)}

\* where the function of an output entry stood in the input list
InputIndex(f) == CHOOSE i \in 1..Len(impact_scores) : impact_scores[i].function = f

\* C11: the returned list is sorted by descending priority, and among entries
\* of equal priority by descending raw impact.
C11_SortedByPriorityThenImpact ==
    Returned_prioritized =>
        \A i, j \in 1..Len(prioritized) :
            i < j =>
                \/ prioritized[j].priority[1] * prioritized[i].priority[2]
                     < prioritized[i].priority[1] * prioritized[j].priority[2]
                \/ /\ prioritized[j].priority[1] * prioritized[i].priority[2]
                        = prioritized[i].priority[1] * prioritized[j].priority[2]
                   /\ prioritized[i].impact >= prioritized[j].impact

\* two entries of equal priority and different impact whose order the sort
\* reversed, and two entries the sort reordered by priority
C11_Witness ==
    /\ Returned_prioritized
    /\ \E i, j \in 1..Len(prioritized) :
          /\ i < j
          /\ prioritized[i].priority = prioritized[j].priority
          /\ prioritized[i].impact > prioritized[j].impact
          /\ InputIndex(prioritized[i].function) > InputIndex(prioritized[j].function)
    /\ \E i, j \in 1..Len(prioritized) :
          /\ i < j
          /\ prioritized[i].priority # prioritized[j].priority
          /\ InputIndex(prioritized[i].function) > InputIndex(prioritized[j].function)

NonzeroImpact(list) == {i \in 1..Len(list) : list[i].impact # 0}

\* C12: exactly the entries with zero raw impact are dropped when some input
\* entry has nonzero impact, nothing is dropped when every input entry has zero
\* impact, and the result is empty only when the input is empty.
C12_ZeroImpactFilter ==
    Returned_prioritized =>
        /\ NonzeroImpact(impact_scores) # {} =>
              /\ FunctionsOf(prioritized)
                    = {impact_scores[i].function : i \in NonzeroImpact(impact_scores)}
              /\ Len(prioritized) = Cardinality(NonzeroImpact(impact_scores))
        /\ NonzeroImpact(impact_scores) = {} =>
              /\ FunctionsOf(prioritized) = FunctionsOf(impact_scores)
              /\ Len(prioritized) = Len(impact_scores)
        /\ prioritized = <<>> <=> impact_scores = <<>>

\* a zero-impact entry was dropped while an entry of nonzero impact and zero
\* impact score was kept
C12_Witness ==
    /\ Returned_prioritized
    /\ \E i \in 1..Len(impact_scores) :
          /\ impact_scores[i].impact = 0
          /\ impact_scores[i].function \notin FunctionsOf(prioritized)
    /\ \E i \in 1..Len(prioritized) :
          prioritized[i].impact > 0 /\ prioritized[i].impact_score[1] = 0

\* every entry has zero impact and all are returned
C12_AllZeroKept ==
    /\ Returned_prioritized
    /\ Len(impact_scores) >= 2
    /\ NonzeroImpact(impact_scores) = {}
    /\ Len(prioritized) = Len(impact_scores)

InputScores == {impact_scores[i].impact_score : i \in 1..Len(impact_scores)}

\* impact scores are kept in lowest terms with a positive denominator
IsMaxInputScore(x) ==
    x \in InputScores /\ \A y \in InputScores : y[1] * x[2] <= x[1] * y[2]

NormalizedAsClaimed ==
    /\ (\E x \in InputScores : x[1] # 0) =>
          \A i \in 1..Len(prioritized) :
              IsMaxInputScore(prioritized[i].impact_score) =>
                  prioritized[i].impact_score_normalized = <<100, 1>>
    /\ (\E x \in InputScores : IsMaxInputScore(x) /\ x[1] = 0) =>
          \A i \in 1..Len(prioritized) :
              prioritized[i].impact_score_normalized[1] = 0

\* C13 (as stated): whenever some input impact score is nonzero the entry with
\* the maximum impact score gets the normalized impact 100, and when the
\* maximum is 0 every normalized impact is 0.
C13_MaxNormalizedTo100 ==
    Returned_prioritized => NormalizedAsClaimed

\* the statement of C13 restricted to inputs without a negative impact score
C13_WithoutNegativeScores ==
    (Returned_prioritized /\ \A x \in InputScores : x[1] >= 0) => NormalizedAsClaimed

\* the maximum score is 0, another score is negative, both entries are returned
C13_NegativeScoreReached ==
    /\ Returned_prioritized
    /\ \E x \in InputScores : IsMaxInputScore(x) /\ x[1] = 0
    /\ \E i, j \in 1..Len(prioritized) :
          /\ prioritized[i].impact_score[1] = 0
          /\ prioritized[i].impact_score_normalized[1] = 0
          /\ prioritized[j].impact_score[1] < 0
          /\ prioritized[j].impact_score_normalized[1] < 0

DifferOnlyInComplexity(x, y) ==
    /\ x.impact_score = y.impact_score
    /\ x.impact = y.impact
    /\ x.coverage_percentage = y.coverage_percentage
    /\ x.confidence = y.confidence
    /\ x.complexity_score[1] * y.complexity_score[2]
          < y.complexity_score[1] * x.complexity_score[2]

PriorityHigher(x, y) == y.priority[1] * x.priority[2] < x.priority[1] * y.priority[2]

\* C14 (as stated): of two entries that differ only in their complexity score,
\* the one with the lower complexity gets a strictly higher priority.
C14_LowerComplexityHigherPriority ==
    Returned_prioritized =>
        \A i, j \in 1..Len(prioritized) :
            DifferOnlyInComplexity(prioritized[i], prioritized[j]) =>
                PriorityHigher(prioritized[i], prioritized[j])

\* C14 (amended): of two entries that differ only in their complexity score,
\* the one with the lower complexity gets a strictly higher priority when
\* normalized impact times confidence is positive, and both get priority 0
\* when the normalized impact or the confidence is 0.
C14_LowerComplexityHigherPriorityIfPositive ==
    Returned_prioritized =>
        \A i, j \in 1..Len(prioritized) :
            DifferOnlyInComplexity(prioritized[i], prioritized[j]) =>
                LET weight == prioritized[i].impact_score_normalized[1]
                                * prioritized[i].confidence[1]
                IN /\ weight > 0 => PriorityHigher(prioritized[i], prioritized[j])
                   /\ weight = 0 => /\ prioritized[i].priority[1] = 0
                                    /\ prioritized[j].priority[1] = 0

\* a pair with positive weight that the sort reordered, next to an entry of
\* normalized impact 0
C14_Witness ==
    /\ Returned_prioritized
    /\ \E i, j \in 1..Len(prioritized) :
          /\ DifferOnlyInComplexity(prioritized[i], prioritized[j])
          /\ prioritized[i].impact_score_normalized[1] * prioritized[i].confidence[1] > 0
          /\ InputIndex(prioritized[i].function) > InputIndex(prioritized[j].function)
    /\ \E k \in 1..Len(prioritized) : prioritized[k].impact_score_normalized[1] = 0

\* a pair that differs only in complexity, has a non-negative impact score of
\* 0 and so two equal priorities
C14_ZeroWeightReached ==
    /\ Returned_prioritized
    /\ \A x \in InputScores : x[1] >= 0
    /\ \E i, j \in 1..Len(prioritized) :
          /\ DifferOnlyInComplexity(prioritized[i], prioritized[j])
          /\ prioritized[i].impact_score[1] = 0
          /\ prioritized[i].priority = prioritized[j].priority

----------------------------------------------------------------------------
(* SpecCoverage: ImpactCalculator.get_function_coverage for one function, and
   the impact score calculate_impact_scores derives from it *)

WIN_PATH == <<"pkg", "\\", "a", ".", "py">>
A_PY == <<"a", ".", "py">>
PKG == <<"pkg">>
PKG_A_PY == <<"pkg", "/", "a", ".", "py">>
PKG_WIN_PATH == <<"pkg", "/", "pkg", "\\", "a", ".", "py">>
OTHER_PY == <<"other", ".", "py">>

\* the keys a coverage file may hold, in a fixed order
CoverageKeys == <<WIN_PATH, PKG_WIN_PATH, PKG_A_PY, A_PY, OTHER_PY>>

\* the data of the i-th key: each key has its own summary
KeyData(i) ==
    [num_statements |-> 5,
     covered_lines |-> i,
     executed_lines |-> IF i % 2 = 1 THEN {1} ELSE {5},
     missing_lines |-> IF i % 2 = 1 THEN {5, 6, 60} ELSE {1, 2}]

\* coverage_data.get("files", {}): any subset of the keys; a coverage file
\* without "files" gives the empty map
FilesData ==
    {[k \in {CoverageKeys[i] : i \in I} |->
         KeyData(CHOOSE i \in I : CoverageKeys[i] = k)] :
     I \in SUBSET (1..Len(CoverageKeys))}

CoverageCalls ==
    [file_path : {WIN_PATH, A_PY},
     line_num : {1, 5},
     package_prefix : {None, PKG},
     impact : {0} \cup RawImpacts]

InitCoverage ==
    /\ coverage \in FilesData
    /\ call_args \in CoverageCalls
    /\ result = <<>>
    /\ pc = "call"
    /\ impact_scores = <<>>
    /\ prioritized = <<>>
    /\ files = <<>>
    /\ scanned = 0
    /\ order = <<>>
    /\ coverage_file = "json"
    /\ estimated_complexity = <<>>
    /\ estimated_confidence = <<>>
    /\ graph = EmptyGraph
    /\ impact_cache = EmptyCache
    /\ last_op = "init"
    /\ pre_graph = EmptyGraph
    /\ IdleTrace

\* self.get_function_coverage(file_path, line_num, package_prefix)
GetFunctionCoverage ==
    /\ pc = "call"
    /\ result' = get_function_coverage(coverage, call_args.file_path,
                                       call_args.line_num, call_args.package_prefix)
    /\ pc' = "returned"
    /\ UNCHANGED <<graph, impact_cache, last_op, pre_graph, traceVars, files, scanned,
                   order, coverage, impact_scores, prioritized, callVars>>

\* lines 100-116: the entry built from the returned triple
AppendImpactScore ==
    /\ pc = "returned"
    /\ impact_scores' =
          <<[ImpactScoreEntry(ColonJoin(call_args.file_path, Id("func")),
                              call_args.impact, result.coverage_pct)
               EXCEPT !.file = call_args.file_path,
                      !.line = call_args.line_num,
                      !.covered = result.is_covered,
                      !.missing_lines = result.function_missing]>>
    /\ pc' = "appended"
    /\ UNCHANGED <<apiVars, traceVars, files, scanned, order, coverage, prioritized,
                   callVars>>

NextCoverage == GetFunctionCoverage \/ AppendImpactScore

SpecCoverage == InitCoverage /\ [][NextCoverage]_vars

----------------------------------------------------------------------------
(* SpecScore: the loop of calculate_impact_scores over functions of the same
   impact in files with different coverage summaries *)

MaxLines == 2
ScoredFunctions == 2

Summaries == [num_statements : 0..MaxLines, covered_lines : 0..MaxLines]

InitScore ==
    /\ call_args \in [impact : {0} \cup RawImpacts,
                      summaries : [1..ScoredFunctions -> Summaries]]
    /\ impact_scores = <<>>
    /\ pc = "score"
    /\ coverage = <<>>
    /\ result = <<>>
    /\ prioritized = <<>>
    /\ files = <<>>
    /\ scanned = 0
    /\ order = <<>>
    /\ coverage_file = "json"
    /\ estimated_complexity = <<>>
    /\ estimated_confidence = <<>>
    /\ graph = EmptyGraph
    /\ impact_cache = EmptyCache
    /\ last_op = "init"
    /\ pre_graph = EmptyGraph
    /\ IdleTrace

\* one iteration of the loop (lines 82-116)
ScoreNext ==
    /\ pc = "score"
    /\ Len(impact_scores) < Len(call_args.summaries)
    /\ LET k == Len(impact_scores) + 1
           summary == call_args.summaries[k]
       IN impact_scores' =
             Append(impact_scores,
                    ImpactScoreEntry(ItemNames[k], call_args.impact,
                                     CoveragePct(summary.num_statements,
                                                 summary.covered_lines)))
    /\ UNCHANGED <<apiVars, traceVars, files, scanned, order, pc, coverage, prioritized,
                   callVars>>

\* line 119: impact_scores.sort(key=impact_score, reverse=True)
SortScores ==
    /\ pc = "score"
    /\ Len(impact_scores) = Len(call_args.summaries)
    /\ impact_scores' = SortByScore(<<>>, impact_scores)
    /\ pc' = "scored"
    /\ UNCHANGED <<apiVars, traceVars, files, scanned, order, coverage, prioritized,
                   callVars>>

NextScore == ScoreNext \/ SortScores

SpecScore == InitScore /\ [][NextScore]_vars

\* C15: for a fixed impact the impact score does not increase with the coverage
\* percentage: cov1 <= cov2 implies impact_score(impact, cov1) >= impact_score(impact, cov2).
C15_MonotoneInCoverage ==
    pc = "scored" =>
        \A i, j \in 1..Len(impact_scores) :
            LET x == impact_scores[i]
                y == impact_scores[j]
            IN (/\ x.impact = y.impact
                /\ x.coverage_percentage[1] * y.coverage_percentage[2]
                     <= y.coverage_percentage[1] * x.coverage_percentage[2])
               => y.impact_score[1] * x.impact_score[2]
                     <= x.impact_score[1] * y.impact_score[2]

\* two functions of the same nonzero impact, one in a file of strictly lower
\* coverage and with a strictly higher impact score
C15_Witness ==
    /\ pc = "scored"
    /\ \E i, j \in 1..Len(impact_scores) :
          LET x == impact_scores[i]
              y == impact_scores[j]
          IN /\ x.impact > 0
             /\ x.coverage_percentage[1] * y.coverage_percentage[2]
                  < y.coverage_percentage[1] * x.coverage_percentage[2]
             /\ y.impact_score[1] * x.impact_score[2]
                  < x.impact_score[1] * y.impact_score[2]

----------------------------------------------------------------------------
(* Claims about the scores of the pipeline, checked under SpecBuild *)

\* C16 (as stated): every entry produced by calculate_impact_scores has a
\* non-negative impact_score, whatever the call graph and the num_statements
\* and covered_lines of the coverage data.
C16_NonNegativeImpactScore ==
    pc \in {"scored", "prioritized"} =>
        \A i \in 1..Len(impact_scores) : impact_scores[i].impact_score[1] >= 0

\* a called method in a file whose summary has more covered lines than
\* statements: coverage above 1 and a negative impact score
C16_NegativeScoreReached ==
    /\ pc = "scored"
    /\ \E i \in 1..Len(impact_scores) :
          /\ impact_scores[i].impact > 0
          /\ impact_scores[i].file \in DOMAIN coverage
          /\ coverage[impact_scores[i].file].covered_lines
                > coverage[impact_scores[i].file].num_statements
          /\ impact_scores[i].impact_score[1] < 0

----------------------------------------------------------------------------
(* Claims checked under SpecCoverage *)

\* the three keys of a call, written out
GivenKey == call_args.file_path
PrefixedKey ==
    IF call_args.package_prefix = None THEN call_args.file_path
    ELSE call_args.package_prefix \o <<"/">> \o call_args.file_path
SlashKey ==
    [i \in 1..Len(call_args.file_path) |->
        IF call_args.file_path[i] = "\\" THEN "/" ELSE call_args.file_path[i]]

\* C17: when none of the candidate keys of the file is in the coverage data
\* (also when the data has no files at all) get_function_coverage returns
\* (False, 0.0, 0).
C17_NotFoundDefaults ==
    (/\ pc \in {"returned", "appended"}
     /\ {GivenKey, PrefixedKey, SlashKey} \cap DOMAIN coverage = {})
    => /\ result.is_covered = FALSE
       /\ result.coverage_pct[1] = 0
       /\ result.function_missing = 0

\* the call returned with data for other files only, and with no data at all
C17_Witness ==
    /\ pc = "returned"
    /\ {GivenKey, PrefixedKey, SlashKey} \cap DOMAIN coverage = {}
    /\ DOMAIN coverage # {}
    /\ result.is_covered = FALSE

C17_WitnessNoFiles ==
    /\ pc = "returned"
    /\ DOMAIN coverage = {}
    /\ result.function_missing = 0

\* what get_function_coverage returns from the data of one key
FromKey(key) ==
    /\ result.is_covered = (call_args.line_num \in coverage[key].executed_lines)
    /\ result.coverage_pct = <<coverage[key].covered_lines, coverage[key].num_statements>>
    /\ result.function_missing =
          Cardinality({l \in coverage[key].missing_lines :
                          call_args.line_num <= l /\ l <= call_args.line_num + 50})

\* C18: the keys are tried in the order given path, prefixed path, path with
\* forward slashes, and the first key present decides the result.
C18_FirstKeyWins ==
    pc \in {"returned", "appended"} =>
        /\ GivenKey \in DOMAIN coverage => FromKey(GivenKey)
        /\ (GivenKey \notin DOMAIN coverage /\ PrefixedKey \in DOMAIN coverage)
              => FromKey(PrefixedKey)
        /\ (/\ GivenKey \notin DOMAIN coverage
            /\ PrefixedKey \notin DOMAIN coverage
            /\ SlashKey \in DOMAIN coverage) => FromKey(SlashKey)

\* all three keys differ and are present, and the given path decided
C18_Witness ==
    /\ pc = "returned"
    /\ Cardinality({GivenKey, PrefixedKey, SlashKey}) = 3
    /\ {GivenKey, PrefixedKey, SlashKey} \subseteq DOMAIN coverage
    /\ FromKey(GivenKey)
    /\ ~FromKey(PrefixedKey)
    /\ ~FromKey(SlashKey)

\* the given path is absent, the other two are present, the prefixed one decided
C18_WitnessPrefixed ==
    /\ pc = "returned"
    /\ GivenKey \notin DOMAIN coverage
    /\ {PrefixedKey, SlashKey} \subseteq DOMAIN coverage
    /\ PrefixedKey # SlashKey
    /\ FromKey(PrefixedKey)
    /\ ~FromKey(SlashKey)

----------------------------------------------------------------------------
(* SpecAnalyze: CoverageImpactAnalyzer.analyze.  pc names the statement
   analyze is at, or the exception it raised. *)

coverage_file_missing_unchecked(file) == FALSE

\* not coverage_file.exists()
coverage_file_missing(file) == file = "missing"

\* len(call_graph.graph) == 0
no_functions_found(g) == Cardinality(DOMAIN g) = 0

\* what the estimator returns for the scored functions: nothing (no usable
\* model), a complexity for each, or a complexity and a confidence for each
Estimates(scores) ==
    LET fs == FunctionsOf(scores)
    IN {[complexity |-> <<>>, confidence |-> <<>>],
        [complexity |-> [f \in fs |-> 2], confidence |-> <<>>],
        [complexity |-> [f \in fs |-> 2], confidence |-> [f \in fs |-> 5]]}

InitAnalyze ==
    /\ files \in FileLists
    /\ coverage_file \in {"missing", "json", "not_json"}
    /\ scanned = 0
    /\ order = <<>>
    /\ pc = "analyze"
    /\ coverage = <<>>
    /\ impact_scores = <<>>
    /\ prioritized = <<>>
    /\ estimated_complexity = <<>>
    /\ estimated_confidence = <<>>
    /\ call_args = <<>>
    /\ graph = EmptyGraph
    /\ impact_cache = EmptyCache
    /\ result = 0
    /\ last_op = "init"
    /\ pre_graph = EmptyGraph
    /\ IdleTrace

\* lines 83-87
CheckCoverageFile ==
    /\ pc = "analyze"
    /\ pc' = IF coverage_file_missing(coverage_file)
             THEN "FileNotFoundError" ELSE "scan"
    /\ UNCHANGED <<apiVars, traceVars, callVars, files, scanned, order, coverage,
                   impact_scores, prioritized>>

\* lines 94-95
CheckFunctionsFound ==
    /\ pc = "built"
    /\ pc' = IF no_functions_found(graph) THEN "ValueError" ELSE "load"
    /\ UNCHANGED <<apiVars, traceVars, callVars, files, scanned, order, coverage,
                   impact_scores, prioritized>>

\* lines 98-100: load_coverage_data raises for a file that is missing or is not JSON
LoadCoverageData ==
    /\ pc = "load"
    /\ pc' = IF coverage_file = "missing" THEN "FileNotFoundError"
             ELSE IF coverage_file = "not_json" THEN "JSONDecodeError"
             ELSE "loaded"
    /\ UNCHANGED <<apiVars, traceVars, callVars, files, scanned, order, coverage,
                   impact_scores, prioritized>>

\* lines 110-114
EstimateComplexities(estimate) ==
    /\ pc = "scored"
    /\ estimated_complexity' = estimate.complexity
    /\ estimated_confidence' = estimate.confidence
    /\ pc' = "estimated"
    /\ UNCHANGED <<apiVars, traceVars, coverage_file, call_args, files, scanned, order,
                   coverage, impact_scores, prioritized>>

\* lines 117-119
PrioritizeEstimated ==
    /\ pc = "estimated"
    /\ prioritized' = prioritize_functions(impact_scores, estimated_complexity,
                                           estimated_confidence)
    /\ pc' = "prioritized"
    /\ UNCHANGED <<apiVars, traceVars, callVars, files, scanned, order, coverage,
                   impact_scores>>

NextAnalyze ==
    \/ CheckCoverageFile
    \/ VisitFile
    \/ ResolveAndReturn
    \/ CheckFunctionsFound
    \/ LoadCoverageData
    \/ \E files_data \in CoverageFiles(files) : CalculateImpactScoresAt("loaded", files_data)
    \/ \E estimate \in Estimates(impact_scores) : EstimateComplexities(estimate)
    \/ PrioritizeEstimated

SpecAnalyze == InitAnalyze /\ [][NextAnalyze]_vars

\* the non-dunder function definitions of the files scanned so far
RecordableDefs == {d \in ScannedDefs : ~IsDunder(d.name)}

\* C19: with no coverage file analyze raises FileNotFoundError, and does so
\* before the call graph is built: no file is scanned, the graph stays empty and
\* no other condition is reported.
C19_FileNotFoundBeforeBuild ==
    coverage_file = "missing" =>
        /\ pc \in {"analyze", "FileNotFoundError"}
        /\ scanned = 0
        /\ DOMAIN graph = {}

\* analyze raised FileNotFoundError on a source tree without any function,
\* where the build would have led to 'No functions found'
C19_Witness ==
    /\ coverage_file = "missing"
    /\ pc = "FileNotFoundError"
    /\ Len(files) > 0
    /\ \A i \in 1..Len(files) : files[i].parses => DefsOf(files[i].tree) = {}

C20_WitnessFound ==
    /\ coverage_file = "json"
    /\ pc = "prioritized"
    /\ RecordableDefs # {}

----------------------------------------------------------------------------
(* SpecEstimate: CoverageImpactAnalyzer._estimate_complexities, candidate by
   candidate, followed by the prioritization of analyze.  call_args holds the
   loop index and what happened to each candidate processed so far. *)

EstimateLimit == 100

\* Optional[float] in tenths; NoFloat is None
NoFloat == 0 - 1

\* what can happen to one candidate: its file is gone, the estimation raises, or
\* _estimate_function_complexity returns (score, lower, upper)
CandidateOutcomes ==
    {[kind |-> "file_missing", score |-> NoFloat, lower |-> NoFloat, upper |-> NoFloat],
     [kind |-> "raises", score |-> NoFloat, lower |-> NoFloat, upper |-> NoFloat],
     [kind |-> "returns", score |-> NoFloat, lower |-> NoFloat, upper |-> NoFloat],
     [kind |-> "returns", score |-> 2, lower |-> NoFloat, upper |-> NoFloat],
     [kind |-> "returns", score |-> 8, lower |-> 6, upper |-> 9]}

\* impact_scores[:limit]
Candidates(scores, limit) ==
    SubSeq(scores, 1, IF Len(scores) < limit THEN Len(scores) ELSE limit)

\* max(0.0, min(1.0, 1.0 - interval_width))
ConfidenceOf(lower, upper) ==
    LET interval_width == upper - lower
        capped == IF 10 - interval_width < 10 THEN 10 - interval_width ELSE 10
    IN IF capped > 0 THEN capped ELSE 0

abort_after_failure(idx, n) == n

\* "except Exception: ... continue" (lines 200-203): on to the next candidate
resume_after_failure(idx, n) == idx + 1

EstimateInputs ==
    UNION {{[i \in 1..n |-> ImpactScoreEntry(ItemNames[i], c[i], <<0, 1>>)] :
              c \in [1..n -> RawImpacts]} : n \in 0..MaxItems}

InitEstimate ==
    /\ impact_scores \in EstimateInputs
    /\ call_args = [idx |-> 1, outcomes |-> <<>>]
    /\ estimated_complexity = <<>>
    /\ estimated_confidence = <<>>
    /\ pc = "estimate"
    /\ prioritized = <<>>
    /\ coverage = <<>>
    /\ coverage_file = "json"
    /\ files = <<>>
    /\ scanned = 0
    /\ order = <<>>
    /\ graph = EmptyGraph
    /\ impact_cache = EmptyCache
    /\ result = 0
    /\ last_op = "init"
    /\ pre_graph = EmptyGraph
    /\ IdleTrace

\* line 164: ComplexityEstimator(model_path); if it raises, the outer handler
\* returns the empty dictionaries
LoadEstimator(loads) ==
    /\ pc = "estimate"
    /\ pc' = IF loads THEN "estimating" ELSE "estimated"
    /\ UNCHANGED <<apiVars, traceVars, callVars, files, scanned, order, coverage,
                   impact_scores, prioritized>>

\* one iteration of the loop of lines 172-203
EstimateCandidate(outcome) ==
    LET cands == Candidates(impact_scores, EstimateLimit)
        idx == call_args.idx
        f == cands[idx].function
        has_score == outcome.kind = "returns" /\ outcome.score # NoFloat
        has_interval == has_score /\ outcome.lower # NoFloat /\ outcome.upper # NoFloat
    IN /\ pc = "estimating"
       /\ idx <= Len(cands)
       /\ estimated_complexity' =
             IF has_score THEN (f :> outcome.score) @@ estimated_complexity
             ELSE estimated_complexity
       /\ estimated_confidence' =
             IF has_interval
             THEN (f :> ConfidenceOf(outcome.lower, outcome.upper)) @@ estimated_confidence
             ELSE estimated_confidence
       /\ call_args' =
             [idx |-> IF outcome.kind = "raises"
                      THEN resume_after_failure(idx, Len(cands) + 1)
                      ELSE idx + 1,
              outcomes |-> (idx :> outcome) @@ call_args.outcomes]
       /\ UNCHANGED <<apiVars, traceVars, coverage_file, files, scanned, order, pc,
                      coverage, impact_scores, prioritized>>

\* the loop is over: return complexity_scores, confidence_scores (line 212)
ReturnEstimates ==
    /\ pc = "estimating"
    /\ call_args.idx > Len(Candidates(impact_scores, EstimateLimit))
    /\ pc' = "estimated"
    /\ UNCHANGED <<apiVars, traceVars, callVars, files, scanned, order, coverage,
                   impact_scores, prioritized>>

NextEstimate ==
    \/ \E loads \in BOOLEAN : LoadEstimator(loads)
    \/ \E outcome \in CandidateOutcomes : EstimateCandidate(outcome)
    \/ ReturnEstimates
    \/ PrioritizeEstimated

SpecEstimate == InitEstimate /\ [][NextEstimate]_vars

\* C21: a failure while estimating one candidate does not propagate and does
\* not stop the batch: the failing candidate gets no complexity and no
\* confidence entry, every later candidate is still processed, and the
\* prioritized list is still produced.
C21_FailureSkipsOneCandidate ==
    LET cands == Candidates(impact_scores, EstimateLimit)
        done == DOMAIN call_args.outcomes
    IN /\ pc \in {"estimate", "estimating", "estimated", "prioritized"}
       /\ \A i \in done :
             call_args.outcomes[i].kind = "raises" =>
                /\ cands[i].function \notin DOMAIN estimated_complexity
                /\ cands[i].function \notin DOMAIN estimated_confidence
       /\ (pc \in {"estimated", "prioritized"} /\ done # {}) =>
             /\ done = 1..Len(cands)
             /\ \A i \in done :
                   (call_args.outcomes[i].kind = "returns"
                      /\ call_args.outcomes[i].score # NoFloat)
                   => /\ cands[i].function \in DOMAIN estimated_complexity
                      /\ estimated_complexity[cands[i].function]
                            = call_args.outcomes[i].score
       /\ pc = "prioritized" =>
             FunctionsOf(prioritized) = FunctionsOf(impact_scores)

\* the first candidate failed, a later one was estimated, and the list came
\* out with the default complexity for the one and the estimate for the other
C21_Witness ==
    /\ pc = "prioritized"
    /\ Len(impact_scores) >= 2
    /\ DOMAIN call_args.outcomes = 1..Len(impact_scores)
    /\ call_args.outcomes[1].kind = "raises"
    /\ \E i \in 2..Len(impact_scores) : call_args.outcomes[i].score = 8
    /\ \E i, j \in 1..Len(prioritized) :
          /\ prioritized[i].complexity_score = <<5, 10>>
          /\ prioritized[j].complexity_score = <<8, 10>>
          /\ prioritized[j].confidence = <<7, 10>>

----------------------------------------------------------------------------
(* SpecScan: build_call_graph over files of which some fail to open, to
   decode or to parse *)

\* what open(), read() and ast.parse() raise for a file that yields no tree:
\* OSError (IOError), UnicodeDecodeError, SyntaxError, and for an expression
\* nested deeper than the parser can build, RecursionError or MemoryError
ReadErrors ==
    <<"IOError", "UnicodeDecodeError", "SyntaxError", "RecursionError", "MemoryError">>

\* content 1..Len(Sources) is a source, content 0 - k the k-th read error
ScanFileOf(i, content) ==
    IF content < 0 THEN FailedFile(i, ReadErrors[0 - content])
    ELSE SourceFile(i, Sources[content])

ScanContents == ((0 - Len(ReadErrors))..(0 - 1)) \cup (1..Len(Sources))

ScanFileLists ==
    UNION {{[i \in 1..n |-> ScanFileOf(i, c[i])] : c \in [1..n -> ScanContents]} :
           n \in 0..MaxFiles}

InitScan ==
    /\ files \in ScanFileLists
    /\ scanned = 0
    /\ order = <<>>
    /\ pc = "scan"
    /\ coverage = <<>>
    /\ impact_scores = <<>>
    /\ prioritized = <<>>
    /\ graph = EmptyGraph
    /\ impact_cache = EmptyCache
    /\ result = 0
    /\ last_op = "init"
    /\ pre_graph = EmptyGraph
    /\ IdleTrace
    /\ IdleCall

NextScan == VisitFile \/ ResolveAndReturn

SpecScan == InitScan /\ [][NextScan]_vars

\* the files of fs that yield a tree, in their order
RECURSIVE ParsableFiles(_)
ParsableFiles(fs) ==
    IF fs = <<>> THEN <<>>
    ELSE IF Head(fs).parses THEN <<Head(fs)>> \o ParsableFiles(Tail(fs))
    ELSE ParsableFiles(Tail(fs))

\* the loop of lines 275-346 over fs, every file of which yields a tree
RECURSIVE ScanAll(_, _)
ScanAll(g, fs) ==
    IF fs = <<>> THEN g ELSE ScanAll(visit_file(g, Head(fs)), Tail(fs))

GraphBuiltFrom(fs) == resolve_method_calls(ScanAll(EmptyGraph, fs))

HasFailedFile == \E i \in 1..Len(files) : ~files[i].parses

\* C22: build_call_graph skips a file that fails to open, decode or parse and
\* goes on with the next file: the build is never left by an exception, and
\* the graph it returns is the graph built from the parsable files alone
C22_FailedFileSkipped ==
    /\ pc \in {"scan", "built"}
    /\ pc = "built" => graph = GraphBuiltFrom(ParsableFiles(files))

\* C22, what the code does keep: a file failing with one of the three caught
\* exceptions contributes nothing, and the scan goes on after it
C22_CaughtFailureSkipped ==
    (\A i \in 1..Len(files) : files[i].parses \/ skipped_on(files[i].error))
        => C22_FailedFileSkipped

\* a failed file was met and the scan went on to return a graph with keys
C22_SkippedReached ==
    /\ pc = "built"
    /\ HasFailedFile
    /\ DOMAIN graph # {}

\* ast.parse raised RecursionError for a file and build_call_graph was left
\* with a parsable file still unvisited
C22_AbortReached ==
    /\ pc = "RecursionError"
    /\ \E i \in (scanned + 2)..Len(files) : files[i].parses

----------------------------------------------------------------------------
(* Calls in nested function definitions *)

\* the calls of a function's own statements: those a walk of its body meets
\* without entering a nested function definition
RECURSIVE own_calls(_)
own_calls(node) ==
    UNION {IF node.body[i].kind = "FunctionDef" THEN {}
           ELSE (IF node.body[i].kind = "Call" THEN visit_Call(node.body[i]) ELSE {})
                    \cup own_calls(node.body[i]) :
             i \in 1..Len(node.body)}

Recorded(node) == node.kind = "FunctionDef" /\ ~starts_and_ends_with_dunder(node.name)

\* the module-level functions of a file with a function defined directly in
\* their body, and each call of that nested function's own statements
NestedCallSites(file) ==
    UNION {UNION {{[outer |-> ColonJoin(file.path, file.tree[i].name),
                    inner |-> ColonJoin(file.path, file.tree[i].body[j].name),
                    callee |-> c,
                    outer_calls |-> own_calls(file.tree[i])] :
                      c \in own_calls(file.tree[i].body[j])} :
                  j \in {j \in 1..Len(file.tree[i].body) :
                           Recorded(file.tree[i].body[j])}} :
             i \in {i \in 1..Len(file.tree) : Recorded(file.tree[i])}}

\* the callees that stand for a call once the scan is over: the methods it was
\* resolved to, or the call as written
EdgeTargets(callee) ==
    IF pc = "scan" THEN {callee}
    ELSE LET r == resolve_method_call(callee, build_class_methods_mapping(graph))
         IN IF r.add # {} THEN r.add ELSE {callee}

ScannedSites ==
    UNION {NestedCallSites(files[i]) : i \in {i \in 1..scanned : files[i].parses}}

\* C23: a call in the body of a nested function definition adds an edge from
\* the nested function's key and none from the enclosing function's key
\* (calls the enclosing function also makes itself are left aside)
C23_NestedCallNotFromOuter ==
    pc \in {"scan", "built"} =>
        \A s \in ScannedSites :
            LET targets == EdgeTargets(s.callee)
                outer_targets == UNION {EdgeTargets(c) : c \in s.outer_calls}
            IN targets \cap outer_targets = {} =>
                  /\ targets \subseteq graph[s.inner].calls
                  /\ targets \cap graph[s.outer].calls = {}

\* the part of C23 the code keeps: the nested function has the edge
C23_NestedCallFromInner ==
    pc \in {"scan", "built"} =>
        \A s \in ScannedSites : EdgeTargets(s.callee) \subseteq graph[s.inner].calls

\* a built graph where the enclosing function has the edge of a call that
\* only its nested function makes
C23_OuterEdgeReached ==
    /\ pc = "built"
    /\ \E s \in ScannedSites :
          /\ s.callee \notin s.outer_calls
          /\ EdgeTargets(s.callee) \subseteq graph[s.inner].calls
          /\ EdgeTargets(s.callee) \subseteq graph[s.outer].calls
          /\ \A t \in EdgeTargets(s.callee) : {s.inner, s.outer} \subseteq graph[t].called_by

----------------------------------------------------------------------------
(* What get_impact leaves alone (Spec) *)

Queried == last_op = "get_impact"

\* C24: get_impact changes only the impact cache: whatever its argument, a
\* key of the graph or not, the keys of the graph and every node's calls,
\* called_by and metadata are after the call what they were before it
C24_GraphUnchangedByGetImpact == Queried => graph = pre_graph

\* the part of C24 the code keeps: no node that existed is changed and no
\* key is removed
C24_ExistingNodesUnchanged ==
    Queried =>
        /\ DOMAIN pre_graph \subseteq DOMAIN graph
        /\ \A k \in DOMAIN pre_graph : graph[k] = pre_graph[k]

\* get_impact of a name that was no key left a new, empty node under it
C24_KeyCreatedReached ==
    /\ Queried
    /\ HELPER \notin DOMAIN pre_graph
    /\ DOMAIN graph = DOMAIN pre_graph \cup {HELPER}
    /\ DOMAIN pre_graph # {}
    /\ graph[HELPER] = NewNode
    /\ result = 0

----------------------------------------------------------------------------
(* The order of the files (SpecScan) *)

\* the registrations build_call_graph makes for a file
Regs(file) == IF file.parses THEN visit_children(file.tree, None, file.path) ELSE <<>>

\* fs in every order
Orders(fs) ==
    LET n == Len(fs)
    IN {[i \in 1..n |-> fs[p[i]]] :
          p \in {p \in [1..n -> 1..n] : \A a, b \in 1..n : p[a] = p[b] => a = b}}

SameEdges(g, h) ==
    /\ DOMAIN g = DOMAIN h
    /\ \A k \in DOMAIN g :
          g[k].calls = h[k].calls /\ g[k].called_by = h[k].called_by

\* the call c of registration r is one resolve_method_calls resolves to the
\* method registered as m
ResolvesTo(c, m) ==
    /\ m.class_name # None
    /\ Len(Split(c, ".")) \in {2, 3}
    /\ Last(Split(c, ".")) = Last(Split(m.full_name, "."))

\* C25: method calls are resolved once, after every file was visited: an
\* attribute call is resolved to a method whether the file defining the
\* method comes before or after the file with the call, and the calls and
\* called_by sets are the same in whatever order the files are processed
C25_OrderIndependent ==
    pc = "built" =>
        /\ \A i, j \in 1..Len(files) :
              \A a \in 1..Len(Regs(files[i])), b \in 1..Len(Regs(files[j])) :
                 LET r == Regs(files[i])[a]
                     m == Regs(files[j])[b]
                 IN \A c \in r.calls :
                       ResolvesTo(c, m) =>
                          /\ m.full_name \in graph[r.full_name].calls
                          /\ r.full_name \in graph[m.full_name].called_by
        /\ \A q \in Orders(files) : SameEdges(GraphBuiltFrom(ParsableFiles(q)), graph)

\* the first file calls obj.save(), the second file defines the only method
\* named save that is not in the first
C25_Witness ==
    /\ pc = "built"
    /\ Len(files) = 2
    /\ \E a \in 1..Len(Regs(files[1])), b \in 1..Len(Regs(files[2])) :
          LET r == Regs(files[1])[a]
              m == Regs(files[2])[b]
          IN /\ \E c \in r.calls : ResolvesTo(c, m)
             /\ m.full_name \in graph[r.full_name].calls
             /\ pre_graph[r.full_name].calls # graph[r.full_name].calls

----------------------------------------------------------------------------
(* The impact cache and the graph it was computed from *)

\* get_impact(f) on a CallGraph with the same graph and an empty cache
Uncached(g, f) == get_impact(g, EmptyCache, f, NoVisited).value

\* C26: through any sequence of add_call, resolve_method_calls and top-level
\* get_impact, every top-level get_impact(f) returns what an uncached
\* traversal of the graph as it is at the call returns: no value cached
\* before a change of the graph is returned after it
C26_NeverStale == Queried => result = Uncached(pre_graph, call_args)

\* a value cached for f, an edge added or resolved afterwards, and the old
\* value returned by the next get_impact(f)
C26_StaleReturned ==
    /\ Queried
    /\ graph = pre_graph
    /\ call_args \in DOMAIN impact_cache
    /\ result = impact_cache[call_args]
    /\ result = 0
    /\ Uncached(graph, call_args) >= 1

\* C27: on a graph that is not modified between the queries, what top-level
\* get_impact(f) returns does not depend on the queries made before it and is
\* the value of the same traversal run with no cache
C27_CacheTransparent ==
    /\ Queried => result = Uncached(graph, call_args)
    /\ \A f \in DOMAIN impact_cache : impact_cache[f] = Uncached(graph, f)

\* every function was queried, the last query is answered from the cache,
\* and the graph has a cycle through the function queried
C27_Witness ==
    /\ Queried
    /\ DOMAIN impact_cache = Funcs
    /\ graph = pre_graph
    /\ result >= 3
    /\ \E c \in graph[call_args].called_by : call_args \in Indexed(graph, c, {})

----------------------------------------------------------------------------
(* resolve_method_calls run again (Spec) *)

\* C28: resolve_method_calls is idempotent: run on a graph it has already
\* resolved, it leaves every calls set, every called_by set and the keys of
\* the graph as they are, also where an edge now points to a method key such
\* as m.py::A.save
C28_Idempotent == Resolved => SameEdges(resolve_method_calls(graph), graph)

\* a second run in a row over a graph whose raw call obj.save was replaced by
\* edges to the method keys of A.save and B.save, which the second run
\* resolves again, to the same two methods
C28_Witness ==
    /\ Resolved
    /\ graph = pre_graph
    /\ RUN \in DOMAIN graph
    /\ graph[RUN].calls = {SAVE_A, SAVE_B}
    /\ OBJ_SAVE \in DOMAIN graph
    /\ graph[OBJ_SAVE].called_by = {}
    /\ resolve_method_call(SAVE_A, build_class_methods_mapping(graph)).remove = {SAVE_A}

----------------------------------------------------------------------------
(* Every name in an edge set is a key (Spec) *)

\* the keys get_impact(k) reads for each key k: what one pass of
\* calculate_impact_scores over graph.items() (lines 82-89) indexes
KeysReadByScoring(g) == UNION {Indexed(g, k, {}) : k \in DOMAIN g}

\* C29: after any sequence of add_function, add_call and
\* resolve_method_calls every name in a calls or called_by set is a key of
\* the graph, so the get_impact calls of calculate_impact_scores create no
\* key while the graph is iterated
C29_EdgeNamesAreKeys ==
    /\ \A k \in DOMAIN graph :
          (graph[k].calls \cup graph[k].called_by) \subseteq DOMAIN graph
    /\ KeysReadByScoring(graph) \subseteq DOMAIN graph

\* a resolution rewrote edges: a raw name is left as a key without callers,
\* a name never registered is a key with a caller, a method key has a caller
C29_Witness ==
    /\ Resolved
    /\ graph # pre_graph
    /\ \E k \in DOMAIN graph :
          graph[k].file = None /\ graph[k].called_by = {} /\ graph[k].calls = {}
    /\ \E k \in DOMAIN graph : graph[k].file = None /\ graph[k].called_by # {}
    /\ \E k \in DOMAIN graph : graph[k].file # None /\ graph[k].called_by # {}

----------------------------------------------------------------------------
(* Impact and distinct callers (SpecQuery) *)

\* S and everything a function of S calls, directly or not
RECURSIVE CallClosure(_, _)
CallClosure(g, S) ==
    LET T == S \cup UNION {g[x].calls : x \in S \cap DOMAIN g}
    IN IF T = S THEN S ELSE CallClosure(g, T)

\* the functions other than f from which f is reached through one or more
\* call edges
DistinctCallers(g, f) ==
    {a \in DOMAIN g \ {f} : f \in CallClosure(g, g[a].calls)}

\* C30: get_impact(f) is at least the number of distinct functions other
\* than f from which f is reachable through call edges: counting paths can
\* add to the number of distinct callers and never loses one
C30_AtLeastDistinctCallers ==
    /\ Queried => result >= Cardinality(DistinctCallers(graph, call_args))
    /\ \A f \in DOMAIN impact_cache :
          impact_cache[f] >= Cardinality(DistinctCallers(graph, f))

\* a query of a function with three distinct callers that two paths from one
\* of them make count four, after a query whose value is the number of
\* distinct callers
C30_Witness ==
    /\ Queried
    /\ Cardinality(DistinctCallers(graph, call_args)) = 3
    /\ result = 4
    /\ \E f \in DOMAIN impact_cache :
          /\ DistinctCallers(graph, f) # {}
          /\ impact_cache[f] = Cardinality(DistinctCallers(graph, f))

====
